---- MODULE Spec2Model ----
(***************************************************************************)
(* Model of the asteroid world of Rizhiy/asteroids: the fixed-tick         *)
(* integrator (world.rs), the body dynamics and merge (objects.rs) and     *)
(* the vector type (vector.rs).                                            *)
(*                                                                         *)
(* f32 values are modelled as fixed-point numbers: an integer n stands for *)
(* the value n / Scale.  Addition and subtraction are exact;               *)
(* multiplication, division and square root round to the nearest grid      *)
(* value (ties away from zero, so rounding is sign-symmetric as in IEEE    *)
(* arithmetic).  The non-finite results of f32 arithmetic (x / 0, sqrt of  *)
(* a negative) are the single value NaN, which every operation propagates  *)
(* and every comparison answers FALSE for.                                 *)
(***************************************************************************)
EXTENDS Integers, Sequences, FiniteSets, TLC

\* Grid units per 1.0.
Scale == 200

\* The non-finite f32 results.
NaN == -2000000000

Abs(n) == IF n < 0 THEN -n ELSE n

\* n / d for integers, d > 0, rounded to nearest, ties away from zero.
RoundDivPos(n, d) ==
    LET a == Abs(n)
        q == a \div d
        r == a % d
        m == IF 2 * r >= d THEN q + 1 ELSE q
    IN  IF n < 0 THEN -m ELSE m

RoundDiv(n, d) == IF d < 0 THEN RoundDivPos(-n, -d) ELSE RoundDivPos(n, d)

\* Newton iteration for the integer square root: x >= floor(sqrt(n)), x > 0.
RECURSIVE SqrtNewton(_, _)
SqrtNewton(n, x) ==
    LET y == (x + n \div x) \div 2
    IN  IF y >= x THEN x ELSE IF y = 0 THEN 0 ELSE SqrtNewton(n, y)

\* A power of two not below sqrt(n), 0 <= n < 2^31.
SqrtGuess(n) ==
    IF n < 256 THEN 16
    ELSE IF n < 4096 THEN 64
    ELSE IF n < 65536 THEN 256
    ELSE IF n < 1048576 THEN 1024
    ELSE IF n < 16777216 THEN 4096
    ELSE IF n < 268435456 THEN 16384
    ELSE 46341

\* Integer square root of n >= 0, rounded to nearest.
ISqrt(n) ==
    LET r == SqrtNewton(n, SqrtGuess(n))
    IN  IF n - r * r > r THEN r + 1 ELSE r

\* f32 arithmetic on the grid.
FAdd(a, b) == IF a = NaN \/ b = NaN THEN NaN ELSE a + b
FSub(a, b) == IF a = NaN \/ b = NaN THEN NaN ELSE a - b
FMul(a, b) == IF a = NaN \/ b = NaN THEN NaN ELSE RoundDiv(a * b, Scale)
FDiv(a, b) == IF a = NaN \/ b = NaN \/ b = 0 THEN NaN ELSE RoundDiv(a * Scale, b)
FSqrt(a) == IF a = NaN \/ a < 0 THEN NaN ELSE ISqrt(a * Scale)
FLt(a, b) == a # NaN /\ b # NaN /\ a < b
FLe(a, b) == a # NaN /\ b # NaN /\ a <= b
FGt(a, b) == a # NaN /\ b # NaN /\ a > b

\* std::f32::consts::PI on the grid.
PI == RoundDiv(355 * Scale, 113)

(***************************************************************************)
(* vector.rs                                                               *)
(***************************************************************************)
Vector(x, y) == [x |-> x, y |-> y]

Zero == Vector(0, 0)

length(v) == FSqrt(FAdd(FMul(v.x, v.x), FMul(v.y, v.y)))

VAdd(a, b) == Vector(FAdd(a.x, b.x), FAdd(a.y, b.y))

VSub(a, b) == Vector(FSub(a.x, b.x), FSub(a.y, b.y))

VMul(v, scalar) == Vector(FMul(v.x, scalar), FMul(v.y, scalar))

VDiv(v, scalar) == Vector(FDiv(v.x, scalar), FDiv(v.y, scalar))

norm(v) == VDiv(v, length(v))

(***************************************************************************)
(* objects.rs                                                              *)
(***************************************************************************)
Asteroid(pos, vel, size) == [pos |-> pos, vel |-> vel, size |-> size]

radius(a) == FDiv(FSqrt(a.size), PI)

\* The acceleration accumulated over `others` (a sequence), from index k on.
RECURSIVE Accumulate(_, _, _, _)
Accumulate(self, others, k, acc) ==
    IF k > Len(others) THEN acc
    ELSE LET asteroid == others[k]
             direction == VSub(asteroid.pos, self.pos)
             distance == length(direction)
         IN  IF FLt(distance, FAdd(radius(self), radius(asteroid)))
             THEN Accumulate(self, others, k + 1, acc)
             ELSE LET force_magnitude == FDiv(asteroid.size, distance)
                      force == VMul(norm(direction), force_magnitude)
                  IN  Accumulate(self, others, k + 1, VAdd(acc, force))

\* Mutant: the pull on `self` is scaled by its own size, not by the size of
\* the body that pulls.
RECURSIVE AccumulateOwnSize(_, _, _, _)
AccumulateOwnSize(self, others, k, acc) ==
    IF k > Len(others) THEN acc
    ELSE LET asteroid == others[k]
             direction == VSub(asteroid.pos, self.pos)
             distance == length(direction)
         IN  IF FLt(distance, FAdd(radius(self), radius(asteroid)))
             THEN AccumulateOwnSize(self, others, k + 1, acc)
             ELSE LET force_magnitude == FDiv(self.size, distance)
                      force == VMul(norm(direction), force_magnitude)
                  IN  AccumulateOwnSize(self, others, k + 1, VAdd(acc, force))

UpdateWithOwnSize(self, others, step) ==
    LET acc == AccumulateOwnSize(self, others, 1, Zero)
        vel == VAdd(VMul(acc, step), self.vel)
        pos == VAdd(self.pos, VMul(vel, step))
    IN  Asteroid(pos, vel, self.size)

\* Mutant: the pull on `self` grows with its own size too.
RECURSIVE AccumulateBothSizes(_, _, _, _)
AccumulateBothSizes(self, others, k, acc) ==
    IF k > Len(others) THEN acc
    ELSE LET asteroid == others[k]
             direction == VSub(asteroid.pos, self.pos)
             distance == length(direction)
         IN  IF FLt(distance, FAdd(radius(self), radius(asteroid)))
             THEN AccumulateBothSizes(self, others, k + 1, acc)
             ELSE LET force_magnitude ==
                          FDiv(FAdd(self.size, asteroid.size), distance)
                      force == VMul(norm(direction), force_magnitude)
                  IN  AccumulateBothSizes(self, others, k + 1, VAdd(acc, force))

UpdateWithBothSizes(self, others, step) ==
    LET acc == AccumulateBothSizes(self, others, 1, Zero)
        vel == VAdd(VMul(acc, step), self.vel)
        pos == VAdd(self.pos, VMul(vel, step))
    IN  Asteroid(pos, vel, self.size)

\* Asteroid::update: semi-implicit Euler step of `self` against `others`.
AsteroidUpdate(self, others, step) ==
    LET acc == Accumulate(self, others, 1, Zero)
        vel == VAdd(VMul(acc, step), self.vel)
        pos == VAdd(self.pos, VMul(vel, step))
    IN  Asteroid(pos, vel, self.size)

collides_with(self, other) ==
    FLe(length(VSub(self.pos, other.pos)), FAdd(radius(self), radius(other)))

\* Mutant: the merged body keeps the size of the first body.
MergeKeepsOneSize(self, other) ==
    LET total_mass == FAdd(self.size, other.size)
    IN  Asteroid(
            Vector(FDiv(FAdd(FMul(self.size, self.pos.x), FMul(other.size, other.pos.x)), total_mass),
                   FDiv(FAdd(FMul(self.size, self.pos.y), FMul(other.size, other.pos.y)), total_mass)),
            Vector(FDiv(FAdd(FMul(self.size, self.vel.x), FMul(other.size, other.vel.x)), total_mass),
                   FDiv(FAdd(FMul(self.size, self.vel.y), FMul(other.size, other.vel.y)), total_mass)),
            self.size)

\* Mutant: the merged velocity is the unweighted mean of the two velocities.
MergeAveragesVelocity(self, other) ==
    LET total_mass == FAdd(self.size, other.size)
    IN  Asteroid(
            Vector(FDiv(FAdd(FMul(self.size, self.pos.x), FMul(other.size, other.pos.x)), total_mass),
                   FDiv(FAdd(FMul(self.size, self.pos.y), FMul(other.size, other.pos.y)), total_mass)),
            Vector(FDiv(FAdd(self.vel.x, other.vel.x), 2 * Scale),
                   FDiv(FAdd(self.vel.y, other.vel.y), 2 * Scale)),
            FAdd(self.size, other.size))

\* Mutant: the merged body is placed at the contact point of the two circles
\* (on the centre line, radius(self) away from self).
MergeAtContactPoint(self, other) ==
    LET total_mass == FAdd(self.size, other.size)
        direction == VSub(other.pos, self.pos)
        contact == IF length(direction) = 0 THEN self.pos
                   ELSE VAdd(self.pos, VMul(norm(direction), radius(self)))
    IN  Asteroid(
            contact,
            Vector(FDiv(FAdd(FMul(self.size, self.vel.x), FMul(other.size, other.vel.x)), total_mass),
                   FDiv(FAdd(FMul(self.size, self.vel.y), FMul(other.size, other.vel.y)), total_mass)),
            FAdd(self.size, other.size))

\* Mutant: the merged size is the difference of the two sizes.
MergeSubtractsSize(self, other) ==
    LET total_mass == FAdd(self.size, other.size)
    IN  Asteroid(
            Vector(FDiv(FAdd(FMul(self.size, self.pos.x), FMul(other.size, other.pos.x)), total_mass),
                   FDiv(FAdd(FMul(self.size, self.pos.y), FMul(other.size, other.pos.y)), total_mass)),
            Vector(FDiv(FAdd(FMul(self.size, self.vel.x), FMul(other.size, other.vel.x)), total_mass),
                   FDiv(FAdd(FMul(self.size, self.vel.y), FMul(other.size, other.vel.y)), total_mass)),
            FSub(self.size, other.size))

merge_with(self, other) ==
    LET mass1 == self.size
        mass2 == other.size
        total_mass == FAdd(mass1, mass2)
        momentum_x == FAdd(FMul(mass1, self.vel.x), FMul(mass2, other.vel.x))
        momentum_y == FAdd(FMul(mass1, self.vel.y), FMul(mass2, other.vel.y))
        new_vel == Vector(FDiv(momentum_x, total_mass), FDiv(momentum_y, total_mass))
        new_size == FAdd(self.size, other.size)
        new_pos == Vector(
            FDiv(FAdd(FMul(mass1, self.pos.x), FMul(mass2, other.pos.x)), total_mass),
            FDiv(FAdd(FMul(mass1, self.pos.y), FMul(mass2, other.pos.y)), total_mass))
    IN  Asteroid(new_pos, new_vel, new_size)

(***************************************************************************)
(* world.rs                                                                *)
(***************************************************************************)
tick_rate == 100 * Scale

\* cleanup_threshold_multiplier: 10.0
DefaultMultiplier == 10 * Scale

\* let tick_duration = 1.0 / self.tick_rate
tick_duration == FDiv(Scale, tick_rate)

\* Mutant: the pass updates self.asteroids in place, in index order, so that
\* a body reads the already updated state of the bodies before it.
RECURSIVE InPlacePass(_, _)
InPlacePass(bodies, i) ==
    IF i > Len(bodies) THEN bodies
    ELSE InPlacePass(
             [bodies EXCEPT ![i] = AsteroidUpdate(bodies[i], bodies, tick_duration)],
             i + 1)

IntegrateInPlace(bodies) == InPlacePass(bodies, 1)

\* The integration pass of WorldState::update: every body is copied and the
\* copy updated against self.asteroids, which is replaced only after the pass.
Integrate(bodies) ==
    [i \in 1..Len(bodies) |-> AsteroidUpdate(bodies[i], bodies, tick_duration)]

\* Mutant: the inner loop without the to_remove short-circuit.
RECURSIVE CollisionInnerNoSkip(_, _, _, _)
CollisionInnerNoSkip(bodies, i, j, st) ==
    IF j > Len(bodies) THEN st
    ELSE IF collides_with(bodies[i], bodies[j])
         THEN CollisionInnerNoSkip(bodies, i, j + 1,
                  [to_remove |-> st.to_remove \cup {i, j},
                   to_add    |-> Append(st.to_add, merge_with(bodies[i], bodies[j])),
                   from      |-> Append(st.from, <<i, j>>)])
         ELSE CollisionInnerNoSkip(bodies, i, j + 1, st)

\* The inner loop of check_collisions for body i, from body j on; st holds
\* the locals to_remove and to_add, and for each element of to_add the pair
\* of indices it was merged from.
RECURSIVE CollisionInner(_, _, _, _)
CollisionInner(bodies, i, j, st) ==
    IF j > Len(bodies) THEN st
    ELSE IF i \in st.to_remove \/ j \in st.to_remove
         THEN CollisionInner(bodies, i, j + 1, st)
    ELSE LET a1 == bodies[i]
             a2 == bodies[j]
         IN  IF collides_with(a1, a2)
             THEN CollisionInner(bodies, i, j + 1,
                      [to_remove |-> st.to_remove \cup {i, j},
                       to_add    |-> Append(st.to_add, merge_with(a1, a2)),
                       from      |-> Append(st.from, <<i, j>>)])
             ELSE CollisionInner(bodies, i, j + 1, st)

\* Mutant: the outer loop visits the bodies from the last index down.
RECURSIVE CollisionLoopDescending(_, _, _)
CollisionLoopDescending(bodies, i, st) ==
    IF i > Len(bodies) THEN st
    ELSE CollisionLoopDescending(bodies, i + 1,
             CollisionInner(bodies, Len(bodies) + 1 - i,
                            Len(bodies) + 2 - i, st))

\* Mutant: the outer loop ends with the first body that has merged.
RECURSIVE CollisionLoopOnce(_, _, _)
CollisionLoopOnce(bodies, i, st) ==
    IF i > Len(bodies) \/ st.to_add # << >> THEN st
    ELSE CollisionLoopOnce(bodies, i + 1, CollisionInner(bodies, i, i + 1, st))

\* The outer loop of check_collisions from body i on.
RECURSIVE CollisionLoop(_, _, _)
CollisionLoop(bodies, i, st) ==
    IF i > Len(bodies) THEN st
    ELSE CollisionLoop(bodies, i + 1, CollisionInner(bodies, i, i + 1, st))

CollisionScan(bodies) ==
    CollisionLoop(bodies, 1, [to_remove |-> {}, to_add |-> << >>, from |-> << >>])

\* self.asteroids.retain(|_| !to_remove.contains(&idx))
RECURSIVE RetainIdx(_, _, _)
RetainIdx(bodies, k, to_remove) ==
    IF k > Len(bodies) THEN << >>
    ELSE IF k \in to_remove THEN RetainIdx(bodies, k + 1, to_remove)
    ELSE <<bodies[k]>> \o RetainIdx(bodies, k + 1, to_remove)

\* Mutant: the merged bodies are added and the bodies they came from stay.
CheckCollisionsKeepsAll(bodies) ==
    LET st == CollisionScan(bodies)
    IN  bodies \o st.to_add

check_collisions(bodies) ==
    LET st == CollisionScan(bodies)
    IN  RetainIdx(bodies, 1, st.to_remove) \o st.to_add

\* The loop of calculate_center_of_mass from index k on.
RECURSIVE CenterLoop(_, _, _, _, _)
CenterLoop(bodies, weighted, k, total_mass, weighted_pos) ==
    IF k > Len(bodies) THEN VDiv(weighted_pos, total_mass)
    ELSE LET mass == IF weighted THEN bodies[k].size ELSE Scale
         IN  CenterLoop(bodies, weighted, k + 1, FAdd(total_mass, mass),
                        VAdd(weighted_pos, VMul(bodies[k].pos, mass)))

\* Mutant: no early return for an empty collection.
CenterOfMassUnguarded(bodies, weighted) ==
    CenterLoop(bodies, weighted, 1, 0, Zero)

calculate_center_of_mass(bodies, weighted) ==
    IF bodies = << >> THEN Zero
    ELSE CenterLoop(bodies, weighted, 1, 0, Zero)

\* The loop of calculate_mass_std from index k on.
RECURSIVE StdLoop(_, _, _, _, _, _)
StdLoop(bodies, center, weighted, k, total_mass, weighted_variance) ==
    IF k > Len(bodies)
    THEN IF FGt(total_mass, 0) THEN FSqrt(FDiv(weighted_variance, total_mass))
         ELSE 0
    ELSE LET mass == IF weighted THEN bodies[k].size ELSE Scale
             distance == length(VSub(bodies[k].pos, center))
         IN  StdLoop(bodies, center, weighted, k + 1, FAdd(total_mass, mass),
                     FAdd(weighted_variance, FMul(FMul(mass, distance), distance)))

calculate_mass_std(bodies, center, weighted) ==
    IF bodies = << >> THEN 0
    ELSE StdLoop(bodies, center, weighted, 1, 0, 0)

\* Mutant: a body exactly at the threshold distance is evicted.
KeepsStrictlyInside(a, center, threshold) ==
    FLt(length(VSub(a.pos, center)), threshold)

\* The retain predicate of cleanup_distant_asteroids.
Keeps(a, center, threshold) == FLe(length(VSub(a.pos, center)), threshold)

RECURSIVE RetainNear(_, _, _, _)
RetainNear(bodies, k, center, threshold) ==
    IF k > Len(bodies) THEN << >>
    ELSE IF Keeps(bodies[k], center, threshold)
         THEN <<bodies[k]>> \o RetainNear(bodies, k + 1, center, threshold)
         ELSE RetainNear(bodies, k + 1, center, threshold)

cleanup_distant_asteroids(bodies, multiplier) ==
    LET center == calculate_center_of_mass(bodies, TRUE)
        std_dev == calculate_mass_std(bodies, center, FALSE)
        threshold == FMul(std_dev, multiplier)
    IN  RetainNear(bodies, 1, center, threshold)

(***************************************************************************)
(* The Ship (ship.rs).                                                     *)
(***************************************************************************)
RCS_ACCELERATION == 10 * Scale
MAIN_ENGINE_ACCELERATION == FMul(RCS_ACCELERATION, 100 * Scale)
ENGINE_POWER_CHANGE_RATE == Scale \div 2
SHIP_ROTATION_SPEED == 3 * Scale
SHIP_RADIUS == 10 * Scale
SHIP_MASS == 100 * Scale
SHIP_MAX_HEALTH == 10000 * Scale
COLLISION_DAMAGE_THRESHOLD == 10 * Scale
RESTITUTION == Scale \div 2

\* Ship::new(pos)
Ship(pos) ==
    [pos |-> pos, vel |-> Zero, orientation |-> 0,
     health |-> SHIP_MAX_HEALTH, engine_power |-> 0]

\* Vec2::dot
dot(a, b) == FAdd(FMul(a.x, b.x), FMul(a.y, b.y))

\* Vec2::normalize: the vector scaled to length 1.
normalize(v) == VDiv(v, length(v))

\* Unary minus of a vector.
VNeg(v) == Vector(FSub(0, v.x), FSub(0, v.y))

\* f32::clamp(min, max)
clamp(a, min, max) ==
    IF a = NaN THEN NaN ELSE IF a < min THEN min ELSE IF a > max THEN max ELSE a

\* f32::sin and f32::cos for |a| <= 1 radian, where the series below is
\* exact to the precision of the grid.
Sin(a) == FSub(a, FDiv(FMul(FMul(a, a), a), 6 * Scale))
Cos(a) ==
    FAdd(FSub(Scale, FDiv(FMul(a, a), 2 * Scale)),
         FDiv(FMul(FMul(a, a), FMul(a, a)), 24 * Scale))

\* The first loop of Ship::update from body i on.  st.bodies are the bodies,
\* st.acc the acceleration of the ship so far, st.collision_data the
\* contacts <<index, direction, distance>> found so far.
RECURSIVE GravityPass(_, _, _, _)
GravityPass(self, i, dt, st) ==
    IF i > Len(st.bodies) THEN st
    ELSE LET asteroid == st.bodies[i]
             direction == VSub(asteroid.pos, self.pos)
             distance == length(direction)
         IN  IF FLe(distance, FAdd(SHIP_RADIUS, radius(asteroid)))
             THEN GravityPass(self, i + 1, dt,
                      [st EXCEPT !.collision_data =
                                     Append(@, <<i, direction, distance>>)])
             ELSE LET force_magnitude == FDiv(asteroid.size, distance)
                      force == VMul(normalize(direction), force_magnitude)
                      ship_force_magnitude == FDiv(SHIP_MASS, distance)
                      ship_force == VMul(VNeg(normalize(direction)),
                                         ship_force_magnitude)
                  IN  GravityPass(self, i + 1, dt,
                          [st EXCEPT !.acc = VAdd(@, force),
                                     !.bodies[i].vel =
                                         VAdd(asteroid.vel, VMul(ship_force, dt))])

\* Mutant: the damage of a contact is added to the health.
DamageRepairs(health, relative_vel_magnitude, asteroid_mass, total_mass) ==
    IF FGt(relative_vel_magnitude, COLLISION_DAMAGE_THRESHOLD)
    THEN LET surplus == FSub(relative_vel_magnitude, COLLISION_DAMAGE_THRESHOLD)
         IN  FAdd(health,
                  FDiv(FMul(FMul(surplus, surplus), asteroid_mass), total_mass))
    ELSE health

\* Mutant: the damage is applied whatever the relative speed.
DamageWithoutThreshold(health, relative_vel_magnitude, asteroid_mass, total_mass) ==
    LET surplus == FSub(relative_vel_magnitude, COLLISION_DAMAGE_THRESHOLD)
    IN  FSub(health,
             FDiv(FMul(FMul(surplus, surplus), asteroid_mass), total_mass))

\* The health after the damage of one contact (ship.rs:86-89).
Damage(health, relative_vel_magnitude, asteroid_mass, total_mass) ==
    IF FGt(relative_vel_magnitude, COLLISION_DAMAGE_THRESHOLD)
    THEN LET surplus == FSub(relative_vel_magnitude, COLLISION_DAMAGE_THRESHOLD)
         IN  FSub(health,
                  FDiv(FMul(FMul(surplus, surplus), asteroid_mass), total_mass))
    ELSE health

\* Mutant: the velocity change of a contact is applied to the ship at once.
ChangeVelocityAtOnce(st, change) ==
    [st EXCEPT !.self.vel = VSub(@, change)]

\* ship_vel_delta -= impulse / ship_mass
AccumulateVelocity(st, change) ==
    [st EXCEPT !.ship_vel_delta = VSub(@, change)]

\* Mutant: the separation moves the body only.
SeparateBodyOnly(st, index, gap, ship_mass_ratio, asteroid_mass_ratio) ==
    [st EXCEPT !.bodies[index].pos = VAdd(@, VMul(gap, ship_mass_ratio))]

\* The separation of ship and body (ship.rs:97-98), gap being normal * overlap.
Separate(st, index, gap, ship_mass_ratio, asteroid_mass_ratio) ==
    [st EXCEPT !.self.pos = VSub(@, VMul(gap, asteroid_mass_ratio)),
               !.bodies[index].pos = VAdd(@, VMul(gap, ship_mass_ratio))]

\* The body of the second loop of Ship::update for the contact c.  st.self
\* is the ship, st.bodies the bodies, st.ship_vel_delta the accumulated
\* velocity change of the ship.
ResolveContact(st, c) ==
    LET index == c[1]
        direction == c[2]
        distance == c[3]
        self == st.self
        asteroid == st.bodies[index]
    IN  IF ~FGt(distance, 0) THEN st
        ELSE LET overlap == FSub(FAdd(SHIP_RADIUS, radius(asteroid)), distance)
                 normal == normalize(direction)
                 ship_mass == SHIP_MASS
                 asteroid_mass == asteroid.size
                 total_mass == FAdd(ship_mass, asteroid_mass)
                 relative_vel == VSub(asteroid.vel, self.vel)
                 relative_vel_magnitude == length(relative_vel)
                 rel_vel_along_normal == dot(relative_vel, normal)
                 ship_mass_ratio == FDiv(ship_mass, total_mass)
                 asteroid_mass_ratio == FDiv(asteroid_mass, total_mass)
                 impulse_magnitude ==
                     FDiv(FMul(FMul(FSub(0, FAdd(Scale, RESTITUTION)),
                                    rel_vel_along_normal),
                               FMul(ship_mass, asteroid_mass)),
                          total_mass)
                 impulse == VMul(normal, impulse_magnitude)
                 hit == [st EXCEPT !.self.health =
                                       Damage(@, relative_vel_magnitude,
                                              asteroid_mass, total_mass)]
                 apart ==
                     IF FGt(overlap, 0)
                     THEN Separate(hit, index, VMul(normal, overlap),
                                   ship_mass_ratio, asteroid_mass_ratio)
                     ELSE hit
                 pushed == AccumulateVelocity(apart, VDiv(impulse, ship_mass))
             IN  [pushed EXCEPT !.bodies[index].vel =
                                    VAdd(@, VDiv(impulse, asteroid_mass))]

\* The second loop of Ship::update from the k-th contact on.
RECURSIVE ContactPass(_, _, _)
ContactPass(st, collision_data, k) ==
    IF k > Len(collision_data) THEN st
    ELSE ContactPass(ResolveContact(st, collision_data[k]), collision_data, k + 1)

\* The contacts the first loop of Ship::update finds.
Contacts(self, bodies, dt) ==
    GravityPass(self, 1, dt,
        [bodies |-> bodies, acc |-> Zero, collision_data |-> << >>]).collision_data

\* Ship::update: the ship and the bodies after the call.
ShipUpdate(self, bodies, dt) ==
    LET found == GravityPass(self, 1, dt,
                     [bodies |-> bodies, acc |-> Zero, collision_data |-> << >>])
        resolved == ContactPass(
                        [self |-> self, bodies |-> found.bodies,
                         ship_vel_delta |-> Zero],
                        found.collision_data, 1)
        bounced == VAdd(resolved.self.vel, resolved.ship_vel_delta)
        vel == VAdd(bounced, VMul(found.acc, dt))
        pos == VAdd(resolved.self.pos, VMul(vel, dt))
    IN  [self |-> [resolved.self EXCEPT !.vel = vel, !.pos = pos],
         bodies |-> resolved.bodies]

\* Ship::apply_control: the ship after the call.
ApplyControl(self, rcs_forward, rcs_strafe, rotate, engine_increase, engine_decrease, dt) ==
    LET orientation ==
            FAdd(self.orientation, FMul(FMul(rotate, SHIP_ROTATION_SPEED), dt))
        increased ==
            IF engine_increase
            THEN FAdd(self.engine_power, FMul(ENGINE_POWER_CHANGE_RATE, dt))
            ELSE self.engine_power
        decreased ==
            IF engine_decrease
            THEN FSub(increased, FMul(ENGINE_POWER_CHANGE_RATE, dt))
            ELSE increased
        engine_power == clamp(decreased, 0, Scale)
        cos_angle == Cos(orientation)
        sin_angle == Sin(orientation)
        forward == Vector(sin_angle, FSub(0, cos_angle))
        rcs_forward_acc == VMul(VMul(forward, rcs_forward), RCS_ACCELERATION)
        rcs_strafe_acc ==
            VMul(VMul(Vector(cos_angle, sin_angle), rcs_strafe), RCS_ACCELERATION)
        main_engine_acc ==
            VMul(VMul(forward, engine_power), MAIN_ENGINE_ACCELERATION)
    IN  [self EXCEPT
            !.orientation = orientation,
            !.engine_power = engine_power,
            !.vel = VAdd(@, VMul(VAdd(VAdd(rcs_forward_acc, rcs_strafe_acc),
                                      main_engine_acc), dt))]

(***************************************************************************)
(* The World as a state machine.                                           *)
(***************************************************************************)
VARIABLES
    asteroids,      \* WorldState.asteroids
    world_time,     \* WorldState.world_time
    cleanup_threshold_multiplier,   \* WorldState.cleanup_threshold_multiplier
    pc,             \* "idle", or "loop" inside WorldState::update
    delta_time,     \* argument of the current (or last) update call
    delta,          \* local `delta` of update
    ret,            \* value returned by the last update call
    ticks,          \* ticks executed since the World was created
    call_ticks,     \* ticks executed by the current (or last) update call
    call_start,     \* world_time when the current (or last) call began
    last,           \* the operation that produced this state
    before,         \* bodies at the start of the last tick
    integrated,     \* bodies after the last tick's integration pass
    to_remove,      \* to_remove of the last tick's collision pass
    to_add,         \* to_add of the last tick's collision pass
    merged_from,    \* for each element of to_add, the indices it came from
    collided,       \* bodies after the last tick's collision pass
    spawned,        \* the bodies as they were when they entered the World
    ship,           \* the Ship
    ship_log,       \* the ship and the bodies at the start of the last Ship call
    strategy,       \* the SpawnStrategy in use and its fields
    framebuffer,    \* FrameBuffer.speed_multiplier and previous_speed
    frame_clock     \* the wall clock and the frame loop's WorldState (main.rs)

vars == <<asteroids, world_time, cleanup_threshold_multiplier, pc, delta_time, delta, ret, ticks,
          call_ticks, call_start, last, before, integrated, to_remove,
          to_add, merged_from, collided, spawned, ship, ship_log, strategy,
          framebuffer, frame_clock>>

\* The variables of the application around the World.
app_vars == <<framebuffer, frame_clock>>

\* What the operations of WorldState in world.rs leave alone.
outer_vars == <<ship, ship_log, strategy, app_vars>>

call_vars == <<delta_time, delta, ret, call_ticks, call_start>>

tick_vars == <<before, integrated, to_remove, to_add, merged_from, collided>>

\* Bounds of the model.
MaxBodies == 3
MaxTicks == 1
MaxDelta == 5

\* Inputs of spawn_asteroid.
Positions == {Vector(0, 0), Vector(240, 180)}
Velocities == {Zero, Vector(-6000, -4500)}
Sizes == {4 * Scale}

NoTick ==
    /\ before = << >>
    /\ integrated = << >>
    /\ to_remove = {}
    /\ to_add = << >>
    /\ merged_from = << >>
    /\ collided = << >>

\* No tick has run in the current call: the per-tick record is empty.
ClearTick ==
    /\ before' = << >>
    /\ integrated' = << >>
    /\ to_remove' = {}
    /\ to_add' = << >>
    /\ merged_from' = << >>
    /\ collided' = << >>

\* No update call is in progress or has just returned: its locals are gone.
ClearCall ==
    /\ delta_time' = 0
    /\ delta' = 0
    /\ ret' = 0
    /\ call_ticks' = 0
    /\ call_start' = 0

\* No Ship call has been made yet.
NoShipCall ==
    [calls |-> 0, op |-> "new", self |-> Ship(Zero), bodies |-> << >>, dt |-> 0]

\* No spawn strategy is in use.
NoStrategy ==
    [name |-> "None", star_spawned |-> FALSE, planets |-> << >>,
     total_moons |-> 0, calls |-> 0]

\* A new ship at the origin, and no spawn strategy.
InitOuter ==
    /\ ship = Ship(Zero)
    /\ ship_log = NoShipCall
    /\ strategy = NoStrategy

\* FrameBuffer::new: the speed fields, and what the last call found:
\* calls counts the calls, in_pause tells that toggle_pause has begun a
\* pause that neither toggle_pause nor reset_speed has ended, paused_at is
\* the multiplier that pause replaced.
FrameBufferNew ==
    [speed_multiplier |-> Scale, previous_speed |-> Scale,
     calls |-> 0, in_pause |-> FALSE, paused_at |-> Scale]

\* WorldState::default of main.rs, at instant 0 of the wall clock.  frames
\* counts the frames; elapsed, simulated and spent are those of the last
\* frame.
FrameClockNew ==
    [now |-> 0, last_update_time |-> 0, speed_multiplier |-> Scale,
     frames |-> 0, elapsed |-> 0, simulated |-> 0, spent |-> 0]

\* The application has just started.
InitApp ==
    /\ framebuffer = FrameBufferNew
    /\ frame_clock = FrameClockNew

\* No call has been made yet: world_time is 0 and there are no locals.
InitIdle ==
    /\ InitApp
    /\ world_time = 0
    /\ pc = "idle"
    /\ delta_time = 0
    /\ delta = 0
    /\ ret = 0
    /\ ticks = 0
    /\ call_ticks = 0
    /\ call_start = 0
    /\ last = "new"
    /\ NoTick

\* A new World's clock, its ship, and no spawn strategy.
InitClock ==
    /\ InitOuter
    /\ InitIdle

\* The fields of a new World other than cleanup_threshold_multiplier.
InitWorld ==
    /\ asteroids = << >>
    /\ spawned = << >>
    /\ InitClock

\* WorldState::new()
Init ==
    /\ InitWorld
    /\ cleanup_threshold_multiplier = DefaultMultiplier

\* WorldState::spawn_asteroid
spawn_asteroid(pos, vel, size) ==
    /\ pc = "idle"
    /\ Len(spawned) < MaxBodies
    /\ asteroids' = Append(asteroids, Asteroid(pos, vel, size))
    /\ spawned' = Append(spawned, Asteroid(pos, vel, size))
    /\ last' = "spawn"
    /\ ClearCall
    /\ UNCHANGED <<world_time, cleanup_threshold_multiplier, pc, ticks>>
    /\ UNCHANGED tick_vars
    /\ UNCHANGED outer_vars

\* The call update(dt) ends before world_time has run through n + 1 ticks.
WithinTicks(dt, n) == FLt(FAdd(world_time, dt), (n + 1) * tick_duration)

\* WorldState::update, entry: the locals are set up.
update(dt) ==
    /\ pc = "idle"
    /\ pc' = "loop"
    /\ delta_time' = dt
    /\ delta' = dt
    /\ call_ticks' = 0
    /\ call_start' = world_time
    /\ last' = "call"
    /\ ClearTick
    /\ UNCHANGED <<asteroids, world_time, cleanup_threshold_multiplier, ret,
                   ticks, spawned>>
    /\ UNCHANGED outer_vars

\* while delta > tick_duration
LoopCondition(d) == FGt(d, tick_duration)

\* Mutant: world_time is advanced by the remaining delta instead of one tick.
AdvanceTimeByDelta(t) == FAdd(t, delta)

\* self.world_time += tick_duration
AdvanceTime(t) == FAdd(t, tick_duration)

\* Mutant: one iteration that runs the collision pass before the integration.
TickCollidesFirst ==
    /\ pc = "loop"
    /\ LoopCondition(delta)
    /\ \E st \in {CollisionScan(asteroids)} :
       \E merged \in {check_collisions(asteroids)} :
       \E new_asteroids \in {Integrate(merged)} :
           /\ before' = asteroids
           /\ integrated' = new_asteroids
           /\ to_remove' = st.to_remove
           /\ to_add' = st.to_add
           /\ merged_from' = st.from
           /\ collided' = new_asteroids
           /\ asteroids' = cleanup_distant_asteroids(
                               new_asteroids, cleanup_threshold_multiplier)
    /\ world_time' = AdvanceTime(world_time)
    /\ delta' = FSub(delta, tick_duration)
    /\ ticks' = ticks + 1
    /\ call_ticks' = call_ticks + 1
    /\ last' = "tick"
    /\ UNCHANGED <<cleanup_threshold_multiplier, pc, delta_time, ret,
                   call_start, spawned>>
    /\ UNCHANGED outer_vars

\* One iteration of the while loop of update.
Tick ==
    /\ pc = "loop"
    /\ LoopCondition(delta)
    /\ \E new_asteroids \in {Integrate(asteroids)} :
       \E st \in {CollisionScan(new_asteroids)} :
       \E merged \in {check_collisions(new_asteroids)} :
           /\ before' = asteroids
           /\ integrated' = new_asteroids
           /\ to_remove' = st.to_remove
           /\ to_add' = st.to_add
           /\ merged_from' = st.from
           /\ collided' = merged
           /\ asteroids' = cleanup_distant_asteroids(
                               merged, cleanup_threshold_multiplier)
    /\ world_time' = AdvanceTime(world_time)
    /\ delta' = FSub(delta, tick_duration)
    /\ ticks' = ticks + 1
    /\ call_ticks' = call_ticks + 1
    /\ last' = "tick"
    /\ UNCHANGED <<cleanup_threshold_multiplier, pc, delta_time, ret,
                   call_start, spawned>>
    /\ UNCHANGED outer_vars

\* The loop condition fails: update returns delta_time - delta.
Return ==
    /\ pc = "loop"
    /\ ~LoopCondition(delta)
    /\ ret' = FSub(delta_time, delta)
    /\ pc' = "idle"
    /\ last' = "return"
    /\ ClearTick
    /\ UNCHANGED <<asteroids, world_time, cleanup_threshold_multiplier,
                   delta_time, delta, ticks, call_ticks, call_start, spawned>>
    /\ UNCHANGED outer_vars

Next ==
    \/ \E pos \in Positions, vel \in Velocities, size \in Sizes :
           spawn_asteroid(pos, vel, size)
    \/ \E dt \in 0..MaxDelta : WithinTicks(dt, MaxTicks) /\ update(dt)
    \/ Tick
    \/ Return

Spec == Init /\ [][Next]_vars

\* Values of the constructor argument cleanup_threshold_multiplier.
Multipliers == {Scale, 2 * Scale}

\* World::new(tick_rate, cleanup_threshold_multiplier)
InitCfg ==
    /\ InitWorld
    /\ cleanup_threshold_multiplier \in Multipliers

SpecCfg == InitCfg /\ [][Next]_vars

(***************************************************************************)
(* Tick quantization.                                                      *)
(***************************************************************************)
\* Whole ticks contained in the requested time t = k / tick_rate + r.
WholeTicks(t) == t \div tick_duration

\* C1 (as claimed): an update(k / tick_rate + r) with 0 <= r < 1 / tick_rate
\* executes exactly k ticks, returns k / tick_rate, advances world_time by
\* k / tick_rate and leaves less than one tick duration unconsumed.
CexC1 ==
    last = "return" =>
        /\ call_ticks = WholeTicks(delta_time)
        /\ ret = WholeTicks(delta_time) * tick_duration
        /\ world_time - call_start = WholeTicks(delta_time) * tick_duration
        /\ delta_time - ret < tick_duration

\* C2: world_time never decreases and is always (ticks executed so far) x
\* (1 / tick_rate); the value an update call returns is the increase of
\* world_time during that call.
WorldTimeIsTicks ==
    /\ world_time = ticks * tick_duration
    /\ last = "return" => ret = world_time - call_start

MergeSizes == {Scale, (3 * Scale) \div 2, 7 * Scale}
MergeCoords == {-250, 0, 131}

\* Two bodies with positive sizes, as spawn_asteroid can create them.
InitMerge ==
    /\ InitClock
    /\ cleanup_threshold_multiplier = DefaultMultiplier
    /\ \E s1 \in MergeSizes, s2 \in MergeSizes, vx \in MergeCoords,
          vy \in MergeCoords, px \in MergeCoords, py \in MergeCoords :
           asteroids = << Asteroid(Vector(37, -59), Vector(vx, 90), s1),
                          Asteroid(Vector(px, py), Vector(-41, vy), s2) >>
    /\ spawned = asteroids

\* a1.merge_with(a2) on the two bodies; the result is recorded as a
\* collision pass records it.
MergeBodies ==
    /\ last = "new"
    /\ Len(asteroids) = 2
    /\ integrated' = asteroids
    /\ to_add' = << merge_with(asteroids[1], asteroids[2]) >>
    /\ merged_from' = << <<1, 2>> >>
    /\ to_remove' = {1, 2}
    /\ last' = "merge"
    /\ UNCHANGED <<asteroids, world_time, cleanup_threshold_multiplier, pc,
                   ticks, before, collided, spawned>>
    /\ UNCHANGED call_vars
    /\ UNCHANGED outer_vars

NextMerge == MergeBodies

SpecMerge == InitMerge /\ [][NextMerge]_vars

\* The inputs of the k-th merge of the last collision pass.
MergeA(k) == integrated[merged_from[k][1]]
MergeB(k) == integrated[merged_from[k][2]]

\* x and y differ by no more than the rounding of a quotient by total mass
\* `mass` (half a grid unit of the quotient) and of two products (half a
\* grid unit each); x and y are in units of 1 / Scale^2.
WithinRounding(x, y, mass) == 2 * Abs(x - y) <= mass + 2 * Scale

Between(v, p, q) == (p <= v /\ v <= q) \/ (q <= v /\ v <= p)

\* C3: the body returned by merge_with for two bodies of positive size has
\* size(a) + size(b).
ThmC3 ==
    \A k \in 1..Len(to_add) :
        (MergeA(k).size > 0 /\ MergeB(k).size > 0) =>
            to_add[k].size = MergeA(k).size + MergeB(k).size

\* Two bodies of different positive sizes have been merged.
WitC3 ==
    /\ last = "merge"
    /\ Len(to_add) = 1
    /\ MergeA(1).size > 0
    /\ MergeB(1).size > MergeA(1).size

\* C4: merge_with conserves momentum in each coordinate:
\* size(m) * vel(m) = size(a) * vel(a) + size(b) * vel(b), the equality
\* being that of the rounded arithmetic (vel(m) is the rounded quotient of
\* the momentum sum by the total mass).
ThmC4 ==
    \A k \in 1..Len(to_add) :
        LET a == MergeA(k)
            b == MergeB(k)
            m == to_add[k]
        IN  (a.size > 0 /\ b.size > 0) =>
                /\ WithinRounding(m.size * m.vel.x,
                                  a.size * a.vel.x + b.size * b.vel.x, m.size)
                /\ WithinRounding(m.size * m.vel.y,
                                  a.size * a.vel.y + b.size * b.vel.y, m.size)

\* Two bodies of different sizes and different velocities have been merged.
WitC4 ==
    /\ last = "merge"
    /\ Len(to_add) = 1
    /\ MergeA(1).size # MergeB(1).size
    /\ MergeA(1).vel.x # MergeB(1).vel.x
    /\ MergeA(1).vel.y # MergeB(1).vel.y
    /\ to_add[1].vel # Zero

\* C5: the position of the merged body is the mass-weighted average of the
\* two positions (up to the rounding of the division), hence between the
\* two positions in each coordinate.
ThmC5 ==
    \A k \in 1..Len(to_add) :
        LET a == MergeA(k)
            b == MergeB(k)
            m == to_add[k]
        IN  (a.size > 0 /\ b.size > 0) =>
                /\ WithinRounding((a.size + b.size) * m.pos.x,
                                  a.size * a.pos.x + b.size * b.pos.x,
                                  a.size + b.size)
                /\ WithinRounding((a.size + b.size) * m.pos.y,
                                  a.size * a.pos.y + b.size * b.pos.y,
                                  a.size + b.size)
                /\ Between(m.pos.x, a.pos.x, b.pos.x)
                /\ Between(m.pos.y, a.pos.y, b.pos.y)

\* Two bodies of different sizes at different positions have been merged,
\* and the merged body is at neither of the two positions.
WitC5 ==
    /\ last = "merge"
    /\ Len(to_add) = 1
    /\ MergeA(1).size # MergeB(1).size
    /\ MergeA(1).pos.x # MergeB(1).pos.x
    /\ MergeA(1).pos.y # MergeB(1).pos.y
    /\ to_add[1].pos # MergeA(1).pos
    /\ to_add[1].pos # MergeB(1).pos

(***************************************************************************)
(* Empty world, cleanup, collision pass, integration pass.                 *)
(***************************************************************************)
\* C6: on a World with no bodies both center-of-mass queries return the
\* zero vector and the dispersion query returns 0 (finite values: nothing
\* was divided by the zero total mass), and a tick on an empty World leaves
\* the collection empty.
ThmC6 ==
    /\ asteroids = << >> =>
           /\ calculate_center_of_mass(asteroids, TRUE) = Zero
           /\ calculate_center_of_mass(asteroids, FALSE) = Zero
           /\ calculate_mass_std(asteroids, Zero, TRUE) = 0
           /\ calculate_mass_std(asteroids, Zero, FALSE) = 0
    /\ (last = "tick" /\ before = << >>) =>
           /\ collided = << >>
           /\ calculate_center_of_mass(collided, TRUE) = Zero
           /\ asteroids = << >>

\* A tick has run on an empty World.
WitC6 == last = "tick" /\ before = << >> /\ asteroids = << >> /\ ticks = 1

\* Sum of f over the indices 1..n of a sequence, last index first.
RECURSIVE SumTo(_, _)
SumTo(f, n) == IF n = 0 THEN 0 ELSE FAdd(f[n], SumTo(f, n - 1))

\* The mass-weighted center of mass of a non-empty collection.
WeightedCenter(bodies) ==
    LET n == Len(bodies)
        mass == SumTo([i \in 1..n |-> bodies[i].size], n)
    IN  Vector(FDiv(SumTo([i \in 1..n |-> FMul(bodies[i].pos.x, bodies[i].size)], n), mass),
               FDiv(SumTo([i \in 1..n |-> FMul(bodies[i].pos.y, bodies[i].size)], n), mass))

DistanceFrom(a, c) == length(VSub(a.pos, c))

\* The dispersion of a non-empty collection about c: the root of the mean
\* (over the bodies, each counted once) of the squared distance from c.
Dispersion(bodies, c) ==
    LET n == Len(bodies)
        d == [i \in 1..n |-> DistanceFrom(bodies[i], c)]
    IN  FSqrt(FDiv(SumTo([i \in 1..n |-> FMul(d[i], d[i])], n), n * Scale))

\* The cleanup radius of the last tick: multiplier x dispersion of the
\* bodies present after the merges.
CleanupRadius ==
    FMul(Dispersion(collided, WeightedCenter(collided)),
         cleanup_threshold_multiplier)

Inside(a) == DistanceFrom(a, WeightedCenter(collided)) <= CleanupRadius

MergesOf(i) == {k \in 1..Len(merged_from) : i \in {merged_from[k][1], merged_from[k][2]}}

Overlapping(bodies, i) ==
    {j \in (1..Len(bodies)) \ {i} : collides_with(bodies[i], bodies[j])}

\* C9: in one collision pass every body present at the start of the pass is
\* an input of at most one merge, and the inputs of every merge are two
\* distinct bodies present at the start of the pass (never a merged body
\* created in the pass): each merge removes two bodies and appends one.
ThmC9 ==
    (last = "tick") =>
        /\ \A i \in 1..Len(integrated) : Cardinality(MergesOf(i)) <= 1
        /\ \A k \in 1..Len(merged_from) :
               /\ merged_from[k][1] \in 1..Len(integrated)
               /\ merged_from[k][2] \in 1..Len(integrated)
               /\ merged_from[k][1] # merged_from[k][2]
        /\ Len(to_add) = Len(merged_from)
        /\ Cardinality(to_remove) = 2 * Len(to_add)
        /\ Len(collided) = Len(integrated) - Len(to_add)
        /\ \A k \in 1..Len(to_add) :
               collided[Len(collided) - Len(to_add) + k] = to_add[k]

\* A pass in which a body overlapped two others: it was merged with one of
\* them only, and the merged body, still overlapping the third, was left
\* unmerged.
WitC9 ==
    /\ last = "tick"
    /\ Len(integrated) = 3
    /\ \E i \in 1..3 : Cardinality(Overlapping(integrated, i)) = 2
    /\ Len(to_add) = 1
    /\ Len(collided) = 2
    /\ collides_with(collided[1], collided[2])

\* The integration pass visiting the bodies in the order `order`, each body
\* being updated against `snapshot`.
RECURSIVE SnapshotPass(_, _, _)
SnapshotPass(snapshot, order, out) ==
    IF order = << >> THEN out
    ELSE SnapshotPass(snapshot, Tail(order),
             [out EXCEPT ![Head(order)] =
                 AsteroidUpdate(snapshot[Head(order)], snapshot, tick_duration)])

Orders(n) == {o \in [1..n -> 1..n] : \A i \in 1..n : \E k \in 1..n : o[k] = i}

\* C10: the result of a tick's integration pass is, for every order of
\* visiting the bodies, the result of updating each body against the
\* positions and sizes all bodies had at the start of the pass.
ThmC10 ==
    (last = "tick") =>
        /\ Len(integrated) = Len(before)
        /\ \A o \in Orders(Len(before)) :
               integrated = SnapshotPass(before, o, before)

\* A pass over two bodies that attract each other, in which one body moved:
\* the velocity of the other was changed by the pull from the old position.
WitC10 ==
    /\ last = "tick"
    /\ Len(before) >= 2
    /\ \E i, j \in 1..Len(before) :
           /\ i < j
           /\ integrated[i].pos # before[i].pos
           /\ integrated[j].vel # before[j].vel
           /\ ~collides_with(before[i], before[j])

(***************************************************************************)
(* Two bodies at rest, left to one long update call.                       *)
(***************************************************************************)
\* Ticks of the long update call.
RunTicks == 170

\* The argument of the long call: RunTicks ticks and a remainder.
RunDelta == RunTicks * tick_duration + 1

TwoBodySizes == {Scale, 2 * Scale, 4 * Scale}
TwoBodyOffsets == {Vector(2 * Scale, 0), Vector(0, -2 * Scale),
                   Vector(Scale, 0)}

\* Two bodies at rest that do not overlap, the first at the origin.
TwoBodyStarts ==
    {start \in {<<Asteroid(Zero, Zero, s1), Asteroid(p, Zero, s2)>> :
                    s1 \in TwoBodySizes, s2 \in TwoBodySizes,
                    p \in TwoBodyOffsets} :
        ~collides_with(start[1], start[2])}

\* WorldState::new() followed by two spawn_asteroid calls.
InitTwoBody ==
    /\ asteroids \in TwoBodyStarts
    /\ spawned = asteroids
    /\ cleanup_threshold_multiplier = DefaultMultiplier
    /\ InitClock

NextTwoBody ==
    \/ WithinTicks(RunDelta, RunTicks) /\ update(RunDelta)
    \/ Tick
    \/ Return

\* ENABLED <<Tick>>_vars as a state predicate: a tick always changes `ticks`.
TickEnabled == pc = "loop" /\ LoopCondition(delta)

\* WF_vars(Tick), with its ENABLED written out.
FairTick == []<>~TickEnabled \/ []<><<Tick>>_vars

\* The caller makes the call, and a call that has started runs to its return.
SpecTwoBody ==
    /\ InitTwoBody
    /\ [][NextTwoBody]_vars
    /\ WF_vars(WithinTicks(RunDelta, RunTicks) /\ update(RunDelta))
    /\ FairTick
    /\ WF_vars(Return)

\* Velocities this small are the residue of the rounding of the approach.
VelocityTolerance == Scale \div 50

AtRest(v) == Abs(v.x) <= VelocityTolerance /\ Abs(v.y) <= VelocityTolerance

\* The distance between the two bodies as they were spawned.
StartDistance == length(VSub(spawned[2].pos, spawned[1].pos))

\* The two spawned bodies have become one body.
Merged ==
    /\ Len(asteroids) = 1
    /\ asteroids[1].size = spawned[1].size + spawned[2].size
    /\ AtRest(asteroids[1].vel)
    /\ \A i \in 1..2 :
           spawned[i].size >= spawned[3 - i].size =>
               2 * length(VSub(asteroids[1].pos, spawned[i].pos))
                   <= StartDistance

\* Cleanup removed nothing in the last tick.
NothingEvicted == last = "tick" => asteroids = collided

\* C8: a World holding exactly two non-overlapping bodies of positive sizes
\* s1 >= s2, both at rest and a distance D apart, eventually reaches a state
\* with exactly one body, whose size is s1 + s2, whose velocity is zero (up
\* to the rounding of the arithmetic) and whose position is within D/2 of the
\* larger body's initial position; no body is evicted on the way.
ThmC8 == []NothingEvicted /\ <>Merged

\* Two bodies of different sizes, both moving, have just merged into one.
WitC8 ==
    /\ last = "tick"
    /\ Len(before) = 2
    /\ before[1].size # before[2].size
    /\ before[1].vel # Zero
    /\ before[2].vel # Zero
    /\ Len(asteroids) = 1
    /\ asteroids[1].size = before[1].size + before[2].size
    /\ AtRest(asteroids[1].vel)

(***************************************************************************)
(* Radius and size.                                                        *)
(***************************************************************************)
\* The radius of a circle whose area is `size`: sqrt(size / pi).
AreaRadius(size) == FSqrt(FDiv(size, PI))

\* The two radii agree up to the rounding of a square root and a division.
SameRadius(r1, r2) == Abs(r1 - r2) <= 2

\* C11 (as claimed): for every body, radius() equals sqrt(size / pi), so
\* that pi * radius^2 = size.
CexC11 ==
    \A i \in 1..Len(asteroids) :
        SameRadius(radius(asteroids[i]), AreaRadius(asteroids[i].size))

\* C12: when every spawned body has size > 0, every body of the World has
\* size > 0 in every reachable state, after any spawns and ticks.
ThmC12 ==
    (\A k \in 1..Len(spawned) : spawned[k].size > 0) =>
        \A i \in 1..Len(asteroids) : asteroids[i].size > 0

\* A tick has merged two bodies and the merged body is in the World.
WitC12 ==
    /\ last = "tick"
    /\ to_add # << >>
    /\ \E i \in 1..Len(asteroids) :
           /\ asteroids[i] = to_add[1]
           /\ asteroids[i].size > 0
           /\ \E a \in 1..Len(integrated), b \in 1..Len(integrated) :
                  /\ a # b
                  /\ asteroids[i].size = integrated[a].size + integrated[b].size

(***************************************************************************)
(* Bodies in contact, at one position, and of size 0.                      *)
(***************************************************************************)
\* Twice the radius of a body of size 4.0: two such bodies at this distance
\* touch exactly.
ContactDistance == 2 * radius(Asteroid(Zero, Zero, 4 * Scale))

ContactPositions == {Zero, Vector(ContactDistance, 0), Vector(3 * Scale, 0)}
ContactVelocities == {Zero, Vector(0, Scale)}
ContactSizes == {0, 4 * Scale}

ContactBodies ==
    {Asteroid(p, v, s) :
        p \in ContactPositions, v \in ContactVelocities, s \in ContactSizes}

\* WorldState::new() followed by one or two spawn_asteroid calls.
InitContact ==
    /\ asteroids \in {<<a>> : a \in ContactBodies}
                         \cup {<<a, b>> : a \in ContactBodies, b \in ContactBodies}
    /\ spawned = asteroids
    /\ cleanup_threshold_multiplier = DefaultMultiplier
    /\ InitClock

NextContact ==
    \/ \E dt \in 0..MaxDelta : WithinTicks(dt, MaxTicks) /\ update(dt)
    \/ Tick
    \/ Return

SpecContact == InitContact /\ [][NextContact]_vars

\* The bodies of `bodies` that do not collide with `self`, in order.
RECURSIVE Apart(_, _, _)
Apart(self, bodies, k) ==
    IF k > Len(bodies) THEN << >>
    ELSE IF collides_with(self, bodies[k]) THEN Apart(self, bodies, k + 1)
         ELSE <<bodies[k]>> \o Apart(self, bodies, k + 1)

PositiveSizes(bodies) == \A i \in 1..Len(bodies) : bodies[i].size > 0

\* C15 (as claimed): two distinct bodies whose centre distance is at most the
\* sum of their radii, equality included, contribute no gravitational
\* acceleration to each other in the tick's integration: the pairs left out
\* of gravity are exactly the pairs for which collides_with is true.
CexC15 ==
    (last = "tick" /\ PositiveSizes(before)) =>
        \A i \in 1..Len(before) :
            integrated[i] =
                AsteroidUpdate(before[i], Apart(before[i], before, 1),
                               tick_duration)

\* The bodies of `bodies` that are not at the position of `self`, in order.
RECURSIVE Elsewhere(_, _, _)
Elsewhere(self, bodies, k) ==
    IF k > Len(bodies) THEN << >>
    ELSE IF bodies[k].pos = self.pos THEN Elsewhere(self, bodies, k + 1)
         ELSE <<bodies[k]>> \o Elsewhere(self, bodies, k + 1)

Finite(v) == v.x # NaN /\ v.y # NaN

\* C18 (as claimed): for every pair of bodies at identical positions, of any
\* sizes, and for a body compared with itself, Asteroid::update adds no
\* force contribution, divides by no zero distance, and leaves the
\* integrated velocity and position finite.
CexC18 ==
    (last = "tick" /\ \A i \in 1..Len(before) :
                          Finite(before[i].pos) /\ Finite(before[i].vel)) =>
        \A i \in 1..Len(before) :
            /\ Finite(integrated[i].vel)
            /\ Finite(integrated[i].pos)
            /\ integrated[i] =
                   AsteroidUpdate(before[i], Elsewhere(before[i], before, 1),
                                  tick_duration)

(***************************************************************************)
(* A collision pass over several overlapping bodies.                       *)
(***************************************************************************)
\* Bodies in the World when the pass runs.
PassBodies == 4

PassPositions == {Zero, Vector(240, 180)}
PassSizes == {2 * Scale, 4 * Scale}

\* WorldState::new() followed by PassBodies spawn_asteroid calls of bodies
\* at rest.
InitPass ==
    /\ asteroids \in [1..PassBodies ->
                         {Asteroid(p, Zero, s) :
                             p \in PassPositions, s \in PassSizes}]
    /\ spawned = asteroids
    /\ cleanup_threshold_multiplier = DefaultMultiplier
    /\ InitClock

NextPass ==
    \/ \E dt \in 0..MaxDelta : WithinTicks(dt, MaxTicks) /\ update(dt)
    \/ Tick
    \/ Return

SpecPass == InitPass /\ [][NextPass]_vars

\* The pair (i, j) was merged in the last collision pass.
MergedPair(i, j) == \E m \in 1..Len(merged_from) : merged_from[m] = <<i, j>>

\* Body x was merged in the last collision pass.
MergedBody(x) == MergesOf(x) # {}

\* The pair p is considered before the pair q.
Earlier(p, q) == p[1] < q[1] \/ (p[1] = q[1] /\ p[2] < q[2])

\* Body x is scheduled for removal when the pair (i, j) is considered.
Scheduled(x, i, j) ==
    \E m \in 1..Len(merged_from) :
        /\ x \in {merged_from[m][1], merged_from[m][2]}
        /\ Earlier(merged_from[m], <<i, j>>)

\* C16 (as claimed): for indices i < j < k where body i overlaps both j and
\* k, the pair (i, j) merges and body k is left unmerged in that pass.
CexC16 ==
    (last = "tick") =>
        \A i, j, k \in 1..Len(integrated) :
            (/\ i < j
             /\ j < k
             /\ collides_with(integrated[i], integrated[j])
             /\ collides_with(integrated[i], integrated[k])) =>
                MergedPair(i, j) /\ ~MergedBody(k)

\* C16 (amended): pairs are considered in increasing (i, j) order and a pair
\* merges exactly when it overlaps and neither index is already scheduled
\* for removal; for i < j < k where body i overlaps both j and k and neither
\* i nor j is scheduled when (i, j) is considered, (i, j) merges and k is
\* not merged with i (k stays free for a later pair).
ThmC16 ==
    (last = "tick") =>
        /\ \A i, j \in 1..Len(integrated) :
               i < j =>
                   (MergedPair(i, j) <=>
                        /\ collides_with(integrated[i], integrated[j])
                        /\ ~Scheduled(i, i, j)
                        /\ ~Scheduled(j, i, j))
        /\ \A m, n \in 1..Len(merged_from) :
               m < n => Earlier(merged_from[m], merged_from[n])
        /\ \A m \in 1..Len(merged_from) :
               /\ merged_from[m][1] < merged_from[m][2]
               /\ to_add[m] = merge_with(integrated[merged_from[m][1]],
                                         integrated[merged_from[m][2]])
        /\ \A i, j, k \in 1..Len(integrated) :
               (/\ i < j
                /\ j < k
                /\ collides_with(integrated[i], integrated[j])
                /\ collides_with(integrated[i], integrated[k])
                /\ ~Scheduled(i, i, j)
                /\ ~Scheduled(j, i, j)) =>
                   MergedPair(i, j) /\ ~MergedPair(i, k)

\* A pass over four bodies in which body 1 overlapped bodies 2 and 3: the
\* pair (1, 2) was merged and body 3 was merged with body 4.
WitC16 ==
    /\ last = "tick"
    /\ Len(integrated) = 4
    /\ collides_with(integrated[1], integrated[2])
    /\ collides_with(integrated[1], integrated[3])
    /\ merged_from = << <<1, 2>>, <<3, 4>> >>

(***************************************************************************)
(* The order of the steps of a tick.                                       *)
(***************************************************************************)
\* The last tick integrated every body it started with, merged pairs that
\* overlapped at the integrated positions, and cleaned up what the merges
\* left.
StepsInOrder ==
    (last = "tick") =>
        /\ Len(integrated) = Len(before)
        /\ \A i \in 1..Len(before) :
               /\ integrated[i].size = before[i].size
               /\ integrated[i].pos =
                      VAdd(before[i].pos,
                           VMul(integrated[i].vel, tick_duration))
        /\ \A m \in 1..Len(merged_from) :
               /\ merged_from[m][1] \in 1..Len(integrated)
               /\ merged_from[m][2] \in 1..Len(integrated)
               /\ collides_with(integrated[merged_from[m][1]],
                                integrated[merged_from[m][2]])
        /\ \A i, j \in 1..Len(collided) :
               i < j /\ j <= Len(integrated) - Cardinality(to_remove) =>
                   ~collides_with(collided[i], collided[j])
        /\ collided # << >> => asteroids = SelectSeq(collided, Inside)
        /\ world_time = call_start + call_ticks * tick_duration

\* A tick starts from the collection the steps before it left and advances
\* world_time by one tick duration.
TickAfterTick ==
    ticks' # ticks =>
        /\ before' = asteroids
        /\ world_time' = world_time + tick_duration
        /\ ticks' = ticks + 1

MaxShipCalls == 3

\* Bodies around a ship at the origin: at the ship's position, touching its
\* hull from two sides, and out of reach.
NearPositions ==
    {Zero, Vector(10 * Scale, 0), Vector(6 * Scale, 8 * Scale),
     Vector(20 * Scale, 0)}
NearVelocities == {Zero, Vector(-15 * Scale, 0), Vector(-6 * Scale, -8 * Scale)}
NearSizes == {Scale, 4 * Scale}

NearBodies ==
    {Asteroid(p, v, s) : p \in NearPositions, v \in NearVelocities, s \in NearSizes}

\* The player's input of one frame: <<rcs_forward, rcs_strafe, rotate,
\* engine_increase, engine_decrease>>.
Controls ==
    {<<Scale, 0, 0, FALSE, FALSE>>, <<0, -Scale, Scale, TRUE, FALSE>>,
     <<0, 0, -Scale, TRUE, TRUE>>}

\* Ship::new at the origin, in a World of one or two bodies.
InitShip ==
    /\ asteroids \in {<<a>> : a \in NearBodies}
                         \cup {<<a, b>> : a \in NearBodies, b \in NearBodies}
    /\ spawned = asteroids
    /\ cleanup_threshold_multiplier = DefaultMultiplier
    /\ InitClock

\* The call ship.update(&mut asteroids, dt).
Ship_update(dt) ==
    /\ pc = "idle"
    /\ ship_log.calls < MaxShipCalls
    /\ \E after \in {ShipUpdate(ship, asteroids, dt)} :
           /\ ship' = after.self
           /\ asteroids' = after.bodies
    /\ ship_log' = [calls |-> ship_log.calls + 1, op |-> "update",
                    self |-> ship, bodies |-> asteroids, dt |-> dt]
    /\ last' = "ship"
    /\ UNCHANGED <<world_time, cleanup_threshold_multiplier, pc, ticks,
                   spawned, strategy>>
    /\ UNCHANGED call_vars
    /\ UNCHANGED tick_vars
    /\ UNCHANGED app_vars

\* The call ship.apply_control(c[1], c[2], c[3], c[4], c[5], dt).
Ship_apply_control(c, dt) ==
    /\ pc = "idle"
    /\ ship_log.calls < MaxShipCalls
    /\ ship' = ApplyControl(ship, c[1], c[2], c[3], c[4], c[5], dt)
    /\ ship_log' = [calls |-> ship_log.calls + 1, op |-> "apply_control",
                    self |-> ship, bodies |-> asteroids, dt |-> dt]
    /\ last' = "ship"
    /\ UNCHANGED <<asteroids, world_time, cleanup_threshold_multiplier, pc,
                   ticks, spawned, strategy>>
    /\ UNCHANGED call_vars
    /\ UNCHANGED tick_vars
    /\ UNCHANGED app_vars

NextShip ==
    \/ Ship_update(tick_duration)
    \/ \E c \in Controls : Ship_apply_control(c, tick_duration)

SpecShip == InitShip /\ [][NextShip]_vars

\* C13: no step raises the ship's health: after every call the health is a
\* number equal to or lower than before the call.
ThmC13 == [][FLe(ship'.health, ship.health)]_vars

\* A Ship::update call has lowered the health and an apply_control call has
\* followed it.
WitC13 ==
    /\ last = "ship"
    /\ ship_log.op = "apply_control"
    /\ ship.health < SHIP_MAX_HEALTH
    /\ ship.health = ship_log.self.health

\* The body is in contact with the ship: 0 < distance <= ship radius + body
\* radius.
InContact(self, body) ==
    LET distance == length(VSub(body.pos, self.pos))
    IN  FGt(distance, 0) /\ FLe(distance, FAdd(SHIP_RADIUS, radius(body)))

\* |v_rel|: the speed of the body relative to the ship.
RelativeSpeed(self, body) == length(VSub(body.vel, self.vel))

\* (|v_rel| - 10)^2 * body_mass / (ship_mass + body_mass)
SurplusDamage(self, body) ==
    LET surplus == RelativeSpeed(self, body) - 10 * Scale
    IN  FDiv(FMul(FMul(surplus, surplus), body.size), 100 * Scale + body.size)

\* What the contacts among the first k bodies take from the health.
RECURSIVE ContactDamage(_, _, _)
ContactDamage(self, bodies, k) ==
    IF k = 0 THEN 0
    ELSE ContactDamage(self, bodies, k - 1)
             + (IF InContact(self, bodies[k])
                   /\ RelativeSpeed(self, bodies[k]) > 10 * Scale
                THEN SurplusDamage(self, bodies[k])
                ELSE 0)

\* C19: Ship::update reduces the health by (|v_rel| - 10)^2 * body_mass /
\* (ship_mass + body_mass) for each body in contact whose relative speed is
\* above 10, and by nothing for the other bodies.
ThmC19 ==
    (last = "ship" /\ ship_log.op = "update") =>
        ship.health =
            ship_log.self.health
                - ContactDamage(ship_log.self, ship_log.bodies, Len(ship_log.bodies))

\* One Ship::update call with a contact above the threshold, which has cost
\* health, and a contact at the threshold.
WitC19 ==
    /\ last = "ship"
    /\ ship_log.op = "update"
    /\ Len(ship_log.bodies) = 2
    /\ InContact(ship_log.self, ship_log.bodies[1])
    /\ InContact(ship_log.self, ship_log.bodies[2])
    /\ RelativeSpeed(ship_log.self, ship_log.bodies[1]) > 10 * Scale
    /\ RelativeSpeed(ship_log.self, ship_log.bodies[2]) = 10 * Scale
    /\ ship.health = ship_log.self.health
                         - SurplusDamage(ship_log.self, ship_log.bodies[1])
    /\ ship.health < ship_log.self.health

\* The bodies in the order o: the k-th is bodies[o[k]].
Reordered(bodies, o) == [k \in 1..Len(bodies) |-> bodies[o[k]]]

\* C20: whatever the order in which Ship::update meets the bodies, and so
\* processes the contacts, the ship's velocity, position and health and
\* each body's velocity and position come out the same.
ThmC20 ==
    (last = "ship" /\ ship_log.op = "update") =>
        \A o \in Orders(Len(ship_log.bodies)) :
            LET other == ShipUpdate(ship_log.self, Reordered(ship_log.bodies, o),
                                    ship_log.dt)
            IN  /\ other.self = ship
                /\ other.bodies = Reordered(asteroids, o)

\* One Ship::update call with two different contacts, each of which has
\* changed the ship's velocity, moved the ship and cost health.
WitC20 ==
    /\ last = "ship"
    /\ ship_log.op = "update"
    /\ Len(Contacts(ship_log.self, ship_log.bodies, ship_log.dt)) = 2
    /\ ship_log.bodies[1] # ship_log.bodies[2]
    /\ \A k \in 1..2 :
           LET alone == ShipUpdate(ship_log.self, <<ship_log.bodies[k]>>,
                                   ship_log.dt).self
           IN  /\ InContact(ship_log.self, ship_log.bodies[k])
               /\ alone.health < ship_log.self.health
               /\ alone.vel # ship_log.self.vel
               /\ alone.vel # ship.vel
               /\ alone.pos # ship.pos

(***************************************************************************)
(* The spawn strategies (spawn_strategy.rs).  Their numbers go beyond what *)
(* FMul, FDiv and FSqrt can hold in 32 bits, so the same operations are    *)
(* computed in two parts.                                                  *)
(***************************************************************************)
Sign(a, b) == IF (a < 0) = (b < 0) THEN 1 ELSE -1

\* a * b / Scale for 0 <= b <= a, rounded as RoundDiv rounds it.
MulParts(a, b) == (a \div Scale) * b + RoundDiv((a % Scale) * b, Scale)

\* FMul
WMul(a, b) ==
    IF a = NaN \/ b = NaN THEN NaN
    ELSE Sign(a, b) * (IF Abs(a) >= Abs(b) THEN MulParts(Abs(a), Abs(b))
                       ELSE MulParts(Abs(b), Abs(a)))

\* a * Scale / b for a >= 0, b > 0, rounded as RoundDiv rounds it.
DivParts(a, b) == (a \div b) * Scale + RoundDiv((a % b) * Scale, b)

\* FDiv
WDiv(a, b) ==
    IF a = NaN \/ b = NaN \/ b = 0 THEN NaN
    ELSE Sign(a, b) * DivParts(Abs(a), Abs(b))

\* FSqrt; above 10^7 the root is taken of a * Scale / 100 and comes out to
\* the nearest ten.
WSqrt(a) ==
    IF a = NaN \/ a < 0 THEN NaN
    ELSE IF a < 10000000 THEN ISqrt(a * Scale)
    ELSE 10 * ISqrt(a * (Scale \div 100))

\* f32::min and f32::max
FMin(a, b) == IF a = NaN THEN b ELSE IF b = NaN THEN a ELSE IF a < b THEN a ELSE b
FMax(a, b) == IF a = NaN THEN b ELSE IF b = NaN THEN a ELSE IF a > b THEN a ELSE b

\* RandomScreenSpaceStrategy::new()
RandomScreenSpaceStrategy ==
    [name |-> "Random", min_size |-> Scale, min_speed |-> Scale,
     max_size |-> 10000 * Scale, max_speed |-> 10000 * Scale,
     star_spawned |-> FALSE, planets |-> << >>, total_moons |-> 0, calls |-> 0]

\* OrbitalDiskStrategy::new()
OrbitalDiskStrategy ==
    [name |-> "Orbital", min_radius |-> 0, max_radius_multiplier |-> 500 * Scale,
     mean_size |-> 5 * Scale, size_std_dev |-> Scale,
     velocity_std_dev |-> Scale \div 10,
     star_spawned |-> FALSE, planets |-> << >>, total_moons |-> 0, calls |-> 0]

\* SolarSystemStrategy::new()
SolarSystemStrategy ==
    [name |-> "Solar System", star_spawned |-> FALSE, planets |-> << >>,
     total_moons |-> 0, calls |-> 0]

\* What fastrand yields in one spawn call: unit and unit2 are values of
\* fastrand::f32(), dir is <<cos, sin>> of a random angle, tail and tail2
\* are (1 - u)^(-1 / alpha) of power_law_sample, z and z2 are z0 of
\* normal_sample, coin is fastrand::bool() and pick is fastrand::usize.
Dice ==
    {[unit |-> 0, unit2 |-> Scale \div 2, dir |-> <<Scale, 0>>,
      tail |-> Scale, tail2 |-> Scale, z |-> 0, z2 |-> 0,
      coin |-> TRUE, pick |-> 0],
     [unit |-> Scale \div 4, unit2 |-> 0, dir |-> <<0, Scale>>,
      tail |-> 3 * Scale, tail2 |-> 20000 * Scale, z |-> Scale, z2 |-> -6 * Scale,
      coin |-> FALSE, pick |-> 1],
     [unit |-> Scale - 1, unit2 |-> Scale - 1, dir |-> <<-120, -160>>,
      tail |-> 20000 * Scale, tail2 |-> 2 * Scale, z |-> -Scale, z2 |-> Scale,
      coin |-> FALSE, pick |-> 0]}

\* The FrameBuffer: size in pixels, zoom and camera.
Frames ==
    {[width |-> 800 * Scale, height |-> 600 * Scale, zoom |-> Scale,
      camera_pos |-> Zero, camera_vel |-> Zero],
     [width |-> 800 * Scale, height |-> 600 * Scale, zoom |-> 2 * Scale,
      camera_pos |-> Vector(100 * Scale, -50 * Scale),
      camera_vel |-> Vector(Scale, 0)]}

\* Values of WorldState.updates_per_second, which the wall clock decides.
UpdateRates == {0, 50 * Scale}

\* power_law_sample(min_value, alpha), with (1 - u)^(-1 / alpha) drawn.
power_law_sample(min_value, tail) == WMul(min_value, tail)

\* normal_sample(mean, std_dev), with z0 drawn.
normal_sample(mean, std_dev, z0) == FAdd(mean, WMul(std_dev, z0))

\* WorldState::actual_speed
actual_speed(updates_per_second) == WDiv(updates_per_second, tick_rate)

\* The body RandomScreenSpaceStrategy::spawn pushes.
RandomBody(self, updates_per_second, fb, d) ==
    LET width == WDiv(fb.width, fb.zoom)
        height == WDiv(fb.height, fb.zoom)
        x == FAdd(fb.camera_pos.x, WMul(FSub(d.unit, Scale \div 2), width))
        y == FAdd(fb.camera_pos.y, WMul(FSub(d.unit2, Scale \div 2), height))
        speed == FMin(power_law_sample(self.min_speed, d.tail), self.max_speed)
        random_vel == Vector(WMul(d.dir[1], speed), WMul(d.dir[2], speed))
        speed_now == actual_speed(updates_per_second)
        vel == VAdd(random_vel, fb.camera_vel)
        scaled == IF FGt(speed_now, 0)
                  THEN Vector(WDiv(vel.x, speed_now), WDiv(vel.y, speed_now))
                  ELSE vel
        size == FMin(power_law_sample(self.min_size, d.tail2), self.max_size)
    IN  Asteroid(Vector(x, y), scaled, size)

\* a.size() summed over the bodies.
RECURSIVE SumSizes(_, _)
SumSizes(bodies, k) ==
    IF k = 0 THEN 0 ELSE FAdd(SumSizes(bodies, k - 1), bodies[k].size)

\* The body OrbitalDiskStrategy::spawn pushes.
OrbitalBody(self, bodies, fb, d) ==
    LET center == calculate_center_of_mass(bodies, TRUE)
        max_radius == WDiv(self.max_radius_multiplier, fb.zoom)
        disk_radius ==
            FAdd(self.min_radius,
                 WMul(WSqrt(d.unit), FSub(max_radius, self.min_radius)))
        pos == VAdd(center, Vector(WMul(d.dir[1], disk_radius),
                                   WMul(d.dir[2], disk_radius)))
        central_mass == SumSizes(bodies, Len(bodies))
        orbital_speed == WSqrt(central_mass)
        velocity_perturbation == normal_sample(Scale, self.velocity_std_dev, d.z)
        perturbed_speed == WMul(orbital_speed, velocity_perturbation)
        vel == Vector(WMul(FSub(0, d.dir[2]), perturbed_speed),
                      WMul(d.dir[1], perturbed_speed))
        size == FMax(normal_sample(self.mean_size, self.size_std_dev, d.z2),
                     Scale \div 10)
    IN  Asteroid(pos, vel, size)

\* The constants of SolarSystemStrategy::spawn.
STAR_RADIUS_MULTIPLIER == 125 * Scale
PLANET_RADIUS_MULTIPLIER == 25 * Scale
MOON_RADIUS_MULTIPLIER == 5 * Scale
PLANET_ORBIT_MULTIPLIER == 10 * Scale
MOON_ORBIT_MULTIPLIER == 3 * Scale
PlanetsWanted == 10
MoonsWanted == 30

\* SolarSystemStrategy::is_complete
is_complete(self) ==
    self.star_spawned /\ Len(self.planets) >= PlanetsWanted
        /\ self.total_moons >= MoonsWanted

\* radius * radius * PI
DiskMass(r) == WMul(WMul(r, r), PI)

\* iter().max_by(size): the index of the last body of the largest size.
MaxBySize(bodies) ==
    CHOOSE i \in 1..Len(bodies) :
        \A j \in 1..Len(bodies) :
            bodies[j].size < bodies[i].size
                \/ (bodies[j].size = bodies[i].size /\ j <= i)

\* Mutant: moons are wanted without limit.
MoonAlwaysWanted(self) == self.planets # << >>

\* The test of the moon step: there are planets and fewer than 30 moons.
MoonWanted(self) == self.planets # << >> /\ self.total_moons < MoonsWanted

\* SolarSystemStrategy::spawn: the strategy, the ship and the bodies after
\* the call.
SolarSystemSpawn(self, the_ship, bodies, d) ==
    LET unchanged == [self |-> self, ship |-> the_ship, bodies |-> bodies]
        cos == d.dir[1]
        sin == d.dir[2]
    IN  IF is_complete(self) THEN unchanged
        ELSE IF ~self.star_spawned
        THEN LET star_radius == WMul(SHIP_RADIUS, STAR_RADIUS_MULTIPLIER)
                 star_mass == DiskMass(star_radius)
                 safe_distance == WMul(star_radius, 5 * Scale)
                 star_pos == VAdd(the_ship.pos,
                                  Vector(WMul(cos, safe_distance),
                                         WMul(sin, safe_distance)))
                 orbital_speed == WSqrt(star_mass)
             IN  [self |-> [self EXCEPT !.star_spawned = TRUE],
                  ship |-> [the_ship EXCEPT
                               !.vel = Vector(WMul(sin, orbital_speed),
                                              WMul(FSub(0, cos), orbital_speed))],
                  bodies |-> Append(bodies, Asteroid(star_pos, Zero, star_mass))]
        ELSE IF bodies = << >> THEN unchanged
        ELSE LET star == bodies[MaxBySize(bodies)]
                 star_pos == star.pos
                 star_mass == star.size
                 star_radius == WSqrt(WDiv(star_mass, PI))
                 should_spawn_planet ==
                     Len(self.planets) < PlanetsWanted
                         /\ (self.planets = << >> \/ d.coin)
             IN  IF should_spawn_planet
                 THEN LET planet_radius == WMul(SHIP_RADIUS, PLANET_RADIUS_MULTIPLIER)
                          planet_mass == DiskMass(planet_radius)
                          orbit_radius == WMul(star_radius, PLANET_ORBIT_MULTIPLIER)
                          planet_pos == VAdd(star_pos,
                                             Vector(WMul(cos, orbit_radius),
                                                    WMul(sin, orbit_radius)))
                          orbital_speed == WSqrt(star_mass)
                          planet_vel == Vector(WMul(FSub(0, sin), orbital_speed),
                                               WMul(cos, orbital_speed))
                      IN  [self |-> [self EXCEPT !.planets =
                                        Append(@, [pos |-> planet_pos,
                                                   vel |-> planet_vel,
                                                   radius |-> planet_radius])],
                           ship |-> the_ship,
                           bodies |-> Append(bodies,
                                          Asteroid(planet_pos, planet_vel,
                                                   planet_mass))]
                 ELSE IF MoonWanted(self)
                 THEN LET planet == self.planets[(d.pick % Len(self.planets)) + 1]
                          moon_radius == WMul(SHIP_RADIUS, MOON_RADIUS_MULTIPLIER)
                          moon_mass == DiskMass(moon_radius)
                          orbit_radius == WMul(planet.radius, MOON_ORBIT_MULTIPLIER)
                          moon_pos == VAdd(planet.pos,
                                           Vector(WMul(cos, orbit_radius),
                                                  WMul(sin, orbit_radius)))
                          planet_mass == DiskMass(planet.radius)
                          orbital_speed == WSqrt(planet_mass)
                          moon_orbital_vel ==
                              Vector(WMul(FSub(0, sin), orbital_speed),
                                     WMul(cos, orbital_speed))
                          moon_vel == VAdd(planet.vel, moon_orbital_vel)
                      IN  [self |-> [self EXCEPT !.total_moons = @ + 1],
                           ship |-> the_ship,
                           bodies |-> Append(bodies,
                                          Asteroid(moon_pos, moon_vel, moon_mass))]
                 ELSE unchanged

MaxSpawns == 3

\* What a spawn call leaves alone whatever the strategy.
spawn_frame ==
    /\ last' = "strategy"
    /\ UNCHANGED <<world_time, cleanup_threshold_multiplier, pc, ticks,
                   spawned, ship_log>>
    /\ UNCHANGED call_vars
    /\ UNCHANGED tick_vars
    /\ UNCHANGED app_vars

\* RandomScreenSpaceStrategy::spawn(world, fb)
Random_spawn(updates_per_second, fb, d) ==
    /\ pc = "idle"
    /\ strategy.name = "Random"
    /\ strategy.calls < MaxSpawns
    /\ asteroids' = Append(asteroids,
                           RandomBody(strategy, updates_per_second, fb, d))
    /\ strategy' = [strategy EXCEPT !.calls = @ + 1]
    /\ ship' = ship
    /\ spawn_frame

\* OrbitalDiskStrategy::spawn(world, fb)
Orbital_spawn(fb, d) ==
    /\ pc = "idle"
    /\ strategy.name = "Orbital"
    /\ strategy.calls < MaxSpawns
    /\ asteroids' = Append(asteroids, OrbitalBody(strategy, asteroids, fb, d))
    /\ strategy' = [strategy EXCEPT !.calls = @ + 1]
    /\ ship' = ship
    /\ spawn_frame

\* SolarSystemStrategy::spawn(world, fb)
SolarSystem_spawn(d) ==
    /\ pc = "idle"
    /\ strategy.name = "Solar System"
    /\ strategy.calls < MaxSpawns
    /\ \E after \in {SolarSystemSpawn(strategy, ship, asteroids, d)} :
           /\ strategy' = [after.self EXCEPT !.calls = @ + 1]
           /\ ship' = after.ship
           /\ asteroids' = after.bodies
    /\ spawn_frame

\* A new World and one of the three strategies.
InitSpawn ==
    /\ asteroids = << >>
    /\ spawned = << >>
    /\ cleanup_threshold_multiplier = DefaultMultiplier
    /\ ship = Ship(Zero)
    /\ ship_log = NoShipCall
    /\ strategy \in {RandomScreenSpaceStrategy, OrbitalDiskStrategy,
                     SolarSystemStrategy}
    /\ InitIdle

NextSpawn ==
    \/ \E u \in UpdateRates, fb \in Frames, d \in Dice : Random_spawn(u, fb, d)
    \/ \E fb \in Frames, d \in Dice : Orbital_spawn(fb, d)
    \/ \E d \in Dice : SolarSystem_spawn(d)

SpecSpawn == InitSpawn /\ [][NextSpawn]_vars

\* C14: a call of a strategy's spawn leaves the body collection, the ship
\* and world_time as they were.
CexC14 ==
    [][last' = "strategy" =>
           /\ asteroids' = asteroids
           /\ ship' = ship
           /\ world_time' = world_time]_vars

(***************************************************************************)
(* One body at the ship: overlapping or touching, approaching, leaving or  *)
(* passing by.                                                             *)
(***************************************************************************)
HitPositions ==
    {Zero, Vector(10 * Scale, 0), Vector(6 * Scale, 8 * Scale),
     Vector(5 * Scale, 0), Vector(0, -3 * Scale), Vector(-8 * Scale, 6 * Scale),
     Vector(20 * Scale, 0)}
HitVelocities ==
    {Zero, Vector(-15 * Scale, 0), Vector(15 * Scale, 0), Vector(0, 12 * Scale),
     Vector(-6 * Scale, -8 * Scale)}
HitSizes == {Scale, 4 * Scale, 16 * Scale}

\* Ship::new at the origin, in a World of one body.
InitHit ==
    /\ asteroids \in {<<Asteroid(p, v, s)>> :
                         p \in HitPositions, v \in HitVelocities, s \in HitSizes}
    /\ spawned = asteroids
    /\ cleanup_threshold_multiplier = DefaultMultiplier
    /\ InitClock

NextHit == Ship_update(tick_duration)

SpecHit == InitHit /\ [][NextHit]_vars

\* The last step was a Ship::update call on a single body at a distance
\* > 0 within reach.
SingleContact ==
    /\ last = "ship"
    /\ ship_log.op = "update"
    /\ Len(ship_log.bodies) = 1
    /\ InContact(ship_log.self, ship_log.bodies[1])

\* direction, distance and overlap of that contact.
HitDirection == VSub(ship_log.bodies[1].pos, ship_log.self.pos)
HitDistance == length(HitDirection)
HitOverlap == SHIP_RADIUS + radius(ship_log.bodies[1]) - HitDistance

\* The ship's position before the call integrated it: pos - vel * dt.
SeparatedShip == VSub(ship.pos, VMul(ship.vel, ship_log.dt))

\* How far the separation has moved the ship and the body.
ShipShift == VSub(SeparatedShip, ship_log.self.pos)
BodyShift == VSub(asteroids[1].pos, ship_log.bodies[1].pos)

\* The length of a short vector, which length() would round away.
Magnitude(v) == ISqrt(v.x * v.x + v.y * v.y)

\* Lengths and products on the grid are equal up to the rounding of the
\* steps that lead to them: 0.015.
SeparationTolerance == (15 * Scale) \div 1000

\* v is along d (or against it when sign = -1), up to rounding.
Along(v, d, sign) ==
    /\ Abs(v.x * d.y - v.y * d.x) <= SeparationTolerance * (Abs(d.x) + Abs(d.y))
    /\ sign * (v.x * d.x + v.y * d.y) >= 0

\* C21: after the separation of a single overlapping body the centres are
\* ship radius + body radius apart; the ship has moved against the contact
\* normal and the body along it, by the overlap times the other's share of
\* the total mass.
ThmC21 ==
    (SingleContact /\ HitOverlap > 0) =>
        LET body == ship_log.bodies[1]
            total_mass == SHIP_MASS + body.size
        IN  /\ Abs(Magnitude(VSub(asteroids[1].pos, SeparatedShip))
                       - (SHIP_RADIUS + radius(body))) <= SeparationTolerance
            /\ Along(ShipShift, HitDirection, -1)
            /\ Along(BodyShift, HitDirection, 1)
            /\ Abs(Magnitude(ShipShift)
                       - FMul(HitOverlap, FDiv(body.size, total_mass)))
                   <= SeparationTolerance
            /\ Abs(Magnitude(BodyShift)
                       - FMul(HitOverlap, FDiv(SHIP_MASS, total_mass)))
                   <= SeparationTolerance

\* A body of size 16 that overlapped the ship by more than 5 has been
\* separated from it, and the ship has moved too.
WitC21 ==
    /\ SingleContact
    /\ ship_log.bodies[1].size = 16 * Scale
    /\ HitOverlap > 5 * Scale
    /\ Magnitude(ShipShift) > Scale \div 2
    /\ Magnitude(BodyShift) > 4 * Scale

\* The speed at which the body leaves the ship along the contact normal
\* (from ship to body) after the call; negative when it approaches.
SeparationSpeed == dot(VSub(asteroids[1].vel, ship.vel), normalize(HitDirection))

\* C28: after a single contact the body does not approach the ship along
\* the contact normal.
CexC28 == SingleContact => SeparationSpeed >= -SeparationTolerance

\* The same for a body that approached the ship, or did not move along the
\* normal, when the call began.
ApproachingHolds ==
    (SingleContact
         /\ dot(VSub(ship_log.bodies[1].vel, ship_log.self.vel),
                normalize(HitDirection)) <= 0)
        => SeparationSpeed >= -SeparationTolerance

(***************************************************************************)
(* Conservation over ticks.                                                *)
(***************************************************************************)
\* The sum of size over the bodies.
TotalSize(bodies) == SumSizes(bodies, Len(bodies))

\* The last tick has left the total size as it was, or lowered it by
\* evicting bodies, and its collision pass has taken one body off the count
\* for each merge.
TickKeepsSize ==
    last = "tick" =>
        /\ TotalSize(asteroids) <= TotalSize(before)
        /\ asteroids = collided => TotalSize(asteroids) = TotalSize(before)
        /\ TotalSize(collided) = TotalSize(before)
        /\ Len(collided) = Len(integrated) - Len(merged_from)

\* C23: without a spawn the total size never increases; a tick that evicts
\* no body leaves it unchanged, and a collision pass lowers the body count
\* by the number of its merges.
ThmC23 ==
    /\ []TickKeepsSize
    /\ [][last' \in {"call", "tick", "return"} =>
              TotalSize(asteroids') <= TotalSize(asteroids)]_vars

\* A tick with two merges: four bodies have become two of the same total
\* size.
WitC23 ==
    /\ last = "tick"
    /\ Len(merged_from) = 2
    /\ Len(before) = 4
    /\ Len(asteroids) = 2
    /\ TotalSize(asteroids) = TotalSize(before)

\* Heavy bodies some distance apart, on which one tick of gravity changes
\* the velocities by many steps of the grid.
HeavyPositions == {Zero, Vector(12 * Scale, 0), Vector(9 * Scale, 12 * Scale)}
HeavyVelocities == {Zero, Vector(3 * Scale, -Scale)}
HeavySizes == {100 * Scale, 400 * Scale}

HeavyBodies ==
    {Asteroid(p, v, s) : p \in HeavyPositions, v \in HeavyVelocities, s \in HeavySizes}

\* WorldState::new() followed by two or three spawn_asteroid calls.
InitHeavy ==
    /\ asteroids \in {<<a, b>> : a \in HeavyBodies, b \in HeavyBodies}
                         \cup {<<a, b, c>> : a \in HeavyBodies, b \in HeavyBodies,
                                             c \in {Asteroid(Vector(9 * Scale, 12 * Scale),
                                                             Zero, 400 * Scale)}}
    /\ spawned = asteroids
    /\ cleanup_threshold_multiplier = DefaultMultiplier
    /\ InitClock

NextHeavy ==
    \/ \E dt \in 0..MaxDelta : WithinTicks(dt, MaxTicks) /\ update(dt)
    \/ Tick
    \/ Return

SpecHeavy == InitHeavy /\ [][NextHeavy]_vars

\* The sum over the first k bodies of size * velocity, as the pair of
\* integers <<sum of size * vel.x, sum of size * vel.y>>.
RECURSIVE Momentum(_, _)
Momentum(bodies, k) ==
    IF k = 0 THEN <<0, 0>>
    ELSE LET rest == Momentum(bodies, k - 1)
         IN  <<rest[1] + bodies[k].size * bodies[k].vel.x,
               rest[2] + bodies[k].size * bodies[k].vel.y>>

TotalMomentum(bodies) == Momentum(bodies, Len(bodies))

\* p and q are equal up to one step of the grid in the velocity of each of
\* the bodies.
SameMomentum(p, q, bodies) ==
    /\ Abs(p[1] - q[1]) <= TotalSize(bodies)
    /\ Abs(p[2] - q[2]) <= TotalSize(bodies)

\* C24: a tick in which cleanup evicts no body leaves the total momentum
\* unchanged, after the integration pass and after the merge pass.
ThmC24 ==
    (last = "tick" /\ asteroids = collided) =>
        /\ SameMomentum(TotalMomentum(integrated), TotalMomentum(before), before)
        /\ SameMomentum(TotalMomentum(collided), TotalMomentum(integrated), before)
        /\ SameMomentum(TotalMomentum(asteroids), TotalMomentum(before), before)

\* A tick in which three bodies of different sizes have pulled on each
\* other: every velocity has changed by more than ten steps of the grid
\* and the total momentum is what it was.
WitC24 ==
    /\ last = "tick"
    /\ asteroids = collided
    /\ Len(before) = 3
    /\ Len(asteroids) = 3
    /\ \E i, j \in 1..3 : before[i].size # before[j].size
    /\ \A i \in 1..3 :
           Abs(asteroids[i].vel.x - before[i].vel.x)
               + Abs(asteroids[i].vel.y - before[i].vel.y) > 10
    /\ SameMomentum(TotalMomentum(asteroids), TotalMomentum(before), before)

\* The bodies of `collided` that went through the last collision pass
\* unmerged come first; the merged bodies follow.
Survivors == 1..(Len(collided) - Len(to_add))

\* C27: after a collision pass two bodies that both went through it
\* unmerged do not overlap: of any two bodies that still overlap, one was
\* created by a merge of the pass.
ThmC27 ==
    (last = "tick") =>
        \A i \in Survivors, j \in Survivors :
            i # j => ~collides_with(collided[i], collided[j])

\* A pass of four bodies with one merge: two bodies went through it
\* unmerged, and one of them overlaps the merged body.
WitC27 ==
    /\ last = "tick"
    /\ Len(integrated) = 4
    /\ Len(to_add) = 1
    /\ Survivors = {1, 2}
    /\ \E i \in Survivors : collides_with(collided[i], collided[3])

\* ---------------------------------------------------------------------
\* Cleanup and the size of the World
\* ---------------------------------------------------------------------

\* The cleanup of the last tick ran on a non-empty collection with a
\* multiplier of at least 1.
CleanupRan ==
    /\ last = "tick"
    /\ collided # << >>
    /\ cleanup_threshold_multiplier >= Scale

\* C25: for a multiplier >= 1, the cleanup of a tick leaves at least one
\* body of a non-empty collection; a World of one body keeps that body.
CexC25 ==
    CleanupRan =>
        /\ asteroids # << >>
        /\ Len(collided) = 1 => asteroids = collided

\* The number of bodies is at most the square of the multiplier.
FewBodies ==
    Len(collided) * Scale * Scale
        <= cleanup_threshold_multiplier * cleanup_threshold_multiplier

\* C26: the cleanup of a tick removes no body when the number of bodies
\* is at most the square of the multiplier.
CexC26 == (last = "tick" /\ FewBodies) => asteroids = collided

(***************************************************************************)
(* A long run of the Solar System strategy on a new World: the dice are    *)
(* free in the first calls; afterwards the coin shows TRUE on every fifth  *)
(* call, so that the moons reach their limit before the planets do.        *)
(***************************************************************************)
RunSpawns == 47
FreeSpawns == 4

RunDice(calls) ==
    IF calls < FreeSpawns THEN Dice
    ELSE {CHOOSE d \in Dice : d.pick = 0 /\ d.coin = (calls % 5 = 0)}

\* SolarSystemStrategy::spawn(world, fb), one call of a long run.
SolarSystem_run(d) ==
    /\ pc = "idle"
    /\ strategy.name = "Solar System"
    /\ strategy.calls < RunSpawns
    /\ \E after \in {SolarSystemSpawn(strategy, ship, asteroids, d)} :
           /\ strategy' = [after.self EXCEPT !.calls = @ + 1]
           /\ ship' = after.ship
           /\ asteroids' = after.bodies
    /\ spawn_frame

InitSolar ==
    /\ asteroids = << >>
    /\ spawned = << >>
    /\ cleanup_threshold_multiplier = DefaultMultiplier
    /\ ship = Ship(Zero)
    /\ ship_log = NoShipCall
    /\ strategy = SolarSystemStrategy
    /\ InitIdle

NextSolar == \E d \in RunDice(strategy.calls) : SolarSystem_run(d)

SpecSolar == InitSolar /\ [][NextSolar]_vars

\* The sizes that tell a star, a planet and a moon apart.
StarSize == DiskMass(WMul(SHIP_RADIUS, STAR_RADIUS_MULTIPLIER))
PlanetSize == DiskMass(WMul(SHIP_RADIUS, PLANET_RADIUS_MULTIPLIER))
MoonSize == DiskMass(WMul(SHIP_RADIUS, MOON_RADIUS_MULTIPLIER))

OfSize(bodies, s) == {i \in 1..Len(bodies) : bodies[i].size = s}

\* What the Solar System strategy has put into a World that began empty.
SolarCensus ==
    strategy.name = "Solar System" =>
        /\ \A i \in 1..Len(asteroids) :
               asteroids[i].size \in {StarSize, PlanetSize, MoonSize}
        /\ Cardinality(OfSize(asteroids, StarSize)) <= 1
        /\ Cardinality(OfSize(asteroids, PlanetSize)) <= 10
        /\ Cardinality(OfSize(asteroids, MoonSize)) <= 30
        /\ strategy.calls >= 1 => OfSize(asteroids, StarSize) = {1}
        /\ \A m \in OfSize(asteroids, MoonSize) :
               \E p \in OfSize(asteroids, PlanetSize) : p < m

\* One call adds at most one body, and none once the strategy is complete.
SolarCall ==
    (strategy.name = "Solar System" /\ last' = "strategy") =>
        /\ \/ asteroids' = asteroids
           \/ /\ Len(asteroids') = Len(asteroids) + 1
              /\ SubSeq(asteroids', 1, Len(asteroids)) = asteroids
        /\ is_complete(strategy) => asteroids' = asteroids

\* C29: over the calls of one SolarSystemStrategy each call adds at most
\* one body, the star is added by the first call and never again, no moon
\* comes before the first planet, the totals stay within 1 star, 10
\* planets and 30 moons, and a call on a complete strategy adds nothing.
ThmC29 == []SolarCensus /\ [][SolarCall]_vars

\* The strategy is complete with 1 + 10 + 30 bodies in the World, and more
\* calls were made than bodies added.
WitC29 ==
    /\ strategy.name = "Solar System"
    /\ is_complete(strategy)
    /\ Len(asteroids) = 41
    /\ Cardinality(OfSize(asteroids, MoonSize)) = 30
    /\ strategy.calls = RunSpawns

(***************************************************************************)
(* The speed controls of the FrameBuffer.                                  *)
(***************************************************************************)
MaxSpeedCalls == 4

\* The factors adjust_speed is called with.
SpeedFactors == {(3 * Scale) \div 2, (2 * Scale) \div 3, 2 * Scale, Scale \div 2}

\* FrameBuffer::adjust_speed
adjust_speed(self, factor) ==
    LET multiplied == FMul(self.speed_multiplier, factor)
    IN  [self EXCEPT !.speed_multiplier =
                         clamp(multiplied, Scale \div 10, 100 * Scale)]

\* FrameBuffer::reset_speed
reset_speed(self) == [self EXCEPT !.speed_multiplier = Scale]

\* FrameBuffer::toggle_pause
toggle_pause(self) ==
    IF self.speed_multiplier = 0
    THEN [self EXCEPT !.speed_multiplier = self.previous_speed]
    ELSE [self EXCEPT !.previous_speed = self.speed_multiplier,
                      !.speed_multiplier = 0]

\* What a call on the speed controls leaves alone.
speed_frame ==
    /\ UNCHANGED <<asteroids, world_time, cleanup_threshold_multiplier, pc,
                   ticks, spawned, ship, ship_log, strategy, frame_clock>>
    /\ UNCHANGED call_vars
    /\ UNCHANGED tick_vars

\* The call fb.adjust_speed(factor).
FrameBuffer_adjust_speed(factor) ==
    /\ pc = "idle"
    /\ framebuffer.calls < MaxSpeedCalls
    /\ framebuffer' = [adjust_speed(framebuffer, factor) EXCEPT !.calls = @ + 1]
    /\ last' = "adjust_speed"
    /\ speed_frame

\* The call fb.reset_speed().
FrameBuffer_reset_speed ==
    /\ pc = "idle"
    /\ framebuffer.calls < MaxSpeedCalls
    /\ framebuffer' = [reset_speed(framebuffer) EXCEPT
                          !.calls = @ + 1, !.in_pause = FALSE]
    /\ last' = "reset_speed"
    /\ speed_frame

\* The call fb.toggle_pause().
FrameBuffer_toggle_pause ==
    /\ pc = "idle"
    /\ framebuffer.calls < MaxSpeedCalls
    /\ framebuffer' =
           [toggle_pause(framebuffer) EXCEPT
               !.calls = @ + 1,
               !.in_pause = framebuffer.speed_multiplier # 0,
               !.paused_at = IF framebuffer.speed_multiplier = 0
                             THEN @ ELSE framebuffer.speed_multiplier]
    /\ last' = "toggle_pause"
    /\ speed_frame

\* A new World and a new FrameBuffer.
InitSpeed ==
    /\ asteroids = << >>
    /\ spawned = << >>
    /\ cleanup_threshold_multiplier = DefaultMultiplier
    /\ InitClock

NextSpeed ==
    \/ \E factor \in SpeedFactors : FrameBuffer_adjust_speed(factor)
    \/ FrameBuffer_reset_speed
    \/ FrameBuffer_toggle_pause

SpecSpeed == InitSpeed /\ [][NextSpeed]_vars

\* A pause begun by toggle_pause has not been ended by toggle_pause or
\* reset_speed.
InPause == framebuffer.in_pause

\* C30: once toggle_pause has paused the simulation, speed_multiplier
\* stays 0 under adjust_speed calls, until the next toggle_pause or
\* reset_speed, and the next toggle_pause restores the multiplier that was
\* in effect when the pause began.
CexC30 ==
    [][InPause =>
           /\ framebuffer.speed_multiplier = 0
           /\ last' = "adjust_speed" => framebuffer'.speed_multiplier = 0
           /\ last' = "toggle_pause" =>
                  framebuffer'.speed_multiplier = framebuffer.paused_at]_vars

\* Without adjust_speed calls in between, a pause ends as the claim says.
PauseEndsPlain ==
    [][(InPause /\ framebuffer.speed_multiplier = 0) =>
           /\ last' = "toggle_pause" =>
                  framebuffer'.speed_multiplier = framebuffer.paused_at
           /\ last' = "reset_speed" => framebuffer'.speed_multiplier = Scale]_vars

(***************************************************************************)
(* The frame loop (main.rs): WorldState::update reads the wall clock and   *)
(* runs the ticks that the elapsed time, scaled by speed_multiplier, holds.*)
(* Instants and durations are on the grid of 1 / Scale seconds.            *)
(***************************************************************************)
CLEANUP_THRESHOLD_MULTIPLIER == 15 * Scale

MaxFrames == 3
MaxFrameTicks == 12

\* Wall time between the end of one update and the start of the next.
FrameGaps == {1, tick_duration + 1}

\* Wall time one tick takes to process: half a tick, or two ticks.
TickCosts == {tick_duration \div 2, 2 * tick_duration}

\* WorldState::cleanup_distant_asteroids of main.rs: the dispersion is
\* weighted by size and the multiplier is a constant.
MainCleanup(bodies) ==
    LET center == calculate_center_of_mass(bodies, TRUE)
        std_dev == calculate_mass_std(bodies, center, TRUE)
        threshold == FMul(std_dev, CLEANUP_THRESHOLD_MULTIPLIER)
    IN  RetainNear(bodies, 1, center, threshold)

\* One iteration of the while loop of WorldState::update of main.rs.
MainTick(bodies) == MainCleanup(check_collisions(Integrate(bodies)))

\* The while loop of WorldState::update of main.rs: the bodies and delta
\* when it ends.
RECURSIVE MainLoop(_, _)
MainLoop(bodies, d) ==
    IF d >= tick_duration
    THEN CHOOSE done \in {MainLoop(new_asteroids, d - tick_duration) :
                              new_asteroids \in {MainTick(bodies)}} : TRUE
    ELSE [bodies |-> bodies, delta |-> d]

\* WorldState::update of main.rs, called at the instant `start`, every
\* tick taking `cost` of wall time: the clock record and the bodies after
\* the call.
MainUpdate(self, bodies, start, cost) ==
    LET elapsed == start - self.last_update_time
        initial_delta == FMul(elapsed, self.speed_multiplier)
        done == MainLoop(bodies, initial_delta)
        simulated_time_processed == initial_delta - done.delta
        actual_time_processed ==
            FDiv(simulated_time_processed, self.speed_multiplier)
        spent == (simulated_time_processed \div tick_duration) * cost
    IN  [self |-> [self EXCEPT
                      !.last_update_time =
                          IF self.speed_multiplier > 0
                          THEN @ + actual_time_processed ELSE @,
                      !.now = start + spent,
                      !.frames = @ + 1,
                      !.elapsed = elapsed,
                      !.simulated = simulated_time_processed,
                      !.spent = spent],
         bodies |-> done.bodies]

\* What a call on the frame loop's WorldState leaves alone.
main_frame ==
    /\ UNCHANGED <<world_time, cleanup_threshold_multiplier, pc, ticks,
                   spawned, ship, ship_log, strategy, framebuffer>>
    /\ UNCHANGED call_vars
    /\ UNCHANGED tick_vars

\* One frame: RunningState::update calls self.world.update().
Frame_update(gap, cost) ==
    /\ pc = "idle"
    /\ frame_clock.frames < MaxFrames
    /\ FMul(frame_clock.now + gap - frame_clock.last_update_time,
            frame_clock.speed_multiplier) < (MaxFrameTicks + 1) * tick_duration
    /\ \E after \in {MainUpdate(frame_clock, asteroids,
                                frame_clock.now + gap, cost)} :
           /\ frame_clock' = after.self
           /\ asteroids' = after.bodies
    /\ last' = "frame"
    /\ main_frame

\* WorldState::increase_speed of main.rs
increase_speed(self) ==
    LET raised == FMul(self.speed_multiplier, (3 * Scale) \div 2)
    IN  [self EXCEPT !.speed_multiplier =
                         IF raised > 10 * Scale THEN 10 * Scale ELSE raised]

\* WorldState::decrease_speed of main.rs
decrease_speed(self) ==
    LET lowered == FDiv(self.speed_multiplier, (3 * Scale) \div 2)
    IN  [self EXCEPT !.speed_multiplier =
                         IF lowered < Scale \div 10 THEN Scale \div 10 ELSE lowered]

\* A key press between two frames changes the speed (one press at most
\* between two frames).
Main_speed ==
    /\ pc = "idle"
    /\ frame_clock.frames < MaxFrames
    /\ last # "speed"
    /\ frame_clock' \in {increase_speed(frame_clock),
                         decrease_speed(frame_clock),
                         reset_speed(frame_clock)}
    /\ frame_clock' # frame_clock
    /\ asteroids' = asteroids
    /\ last' = "speed"
    /\ main_frame

\* The bodies of the frame loop's World: none, or two at rest.
FrameStarts ==
    {<< >>,
     <<Asteroid(Zero, Zero, 4 * Scale), Asteroid(Vector(4 * Scale, 0), Zero, Scale)>>}

\* WorldState::new of main.rs, empty or with two bodies spawned.
InitFrame ==
    /\ asteroids \in FrameStarts
    /\ spawned = asteroids
    /\ cleanup_threshold_multiplier = DefaultMultiplier
    /\ InitClock

NextFrame ==
    \/ \E gap \in FrameGaps, cost \in TickCosts : Frame_update(gap, cost)
    \/ Main_speed

SpecFrame == InitFrame /\ [][NextFrame]_vars

\* The unprocessed time: now - last_update_time.
Backlog(clock) == clock.now - clock.last_update_time

\* Processing the ticks of the last frame took more wall time than the
\* simulated time they stand for.
Overrun(clock) == clock.spent > clock.simulated

\* C22: a frame whose ticks take more wall time than the simulated time
\* they represent ends with last_update_time reset to the current instant,
\* so that the backlog now - last_update_time does not grow over the frame.
CexC22 ==
    [][(last' = "frame" /\ Overrun(frame_clock')) =>
           /\ frame_clock'.last_update_time = frame_clock'.now
           /\ Backlog(frame_clock') <= frame_clock'.elapsed]_vars

\* A frame that keeps up with the wall clock at speed 1 leaves less than
\* a tick, plus the time of its own processing, unprocessed.
KeepsUp ==
    [][(last' = "frame" /\ ~Overrun(frame_clock')
            /\ frame_clock.speed_multiplier = Scale) =>
           Backlog(frame_clock') < tick_duration + frame_clock'.spent]_vars

====
